---- MODULE Spec2Model ----
(***************************************************************************)
(* The unordered multi-element matching engine of gotest:                  *)
(* Contains / ElementsAreUnordered (unorderedMatcher), MapContainsKVs /    *)
(* MapIsKVs (mapKvMatcher over unorderedMatcher), the ordered matcher      *)
(* ElementsAre, the pre-check validateMatchMatrix and the assignment       *)
(* search matcherFlowGraph.Solve / tryAssign.                              *)
(*                                                                         *)
(* Indices are 0-based as in the Go code; -1 is the "unassigned" marker.   *)
(* A Go run-time panic (index out of range) is the result "panic".         *)
(* The element matchers are opaque predicates: matcher i is known by its   *)
(* index and by the verdict it gives on each value, which is drawn when    *)
(* the matrix is built (the only place the code evaluates them).           *)
(***************************************************************************)
EXTENDS Integers, Sequences, FiniteSets, TLC

VARIABLES
    pc,              \* position of the running call
    adapter,         \* constructor of the matcher under call
    op,              \* method under call: "Matches" or "ExplainFailure"
    m,               \* the matcher: [elements |-> len(m.elements), matchAll]
    x,               \* the value handed to the matcher by the caller
    r,               \* the value unorderedMatcher reflects on (x, or xAsList)
    keyMatches,      \* KV adapters: verdict of pair i's key matcher on entry j
    valMatches,      \* KV adapters: verdict of pair i's value matcher on entry j
    built,           \* whether matchMatrix was allocated in this call
    matchMatrix,     \* matchMatrix[i][j]: matcher i matches value j
    noMatchMatchers, \* result of validateMatchMatrix
    noMatchValues,   \* result of validateMatchMatrix
    g,               \* the matcherFlowGraph
    matcher,         \* loop variable of Solve
    evals,           \* number of element-matcher evaluations in this call
    solveCalls,      \* number of Solve invocations in this call
    result,          \* return value of Matches: "none", "true", "false", "panic"
    explanation,     \* return value of ExplainFailure: [text, ok]
    last,            \* the previous invocation, when it is being repeated
    mapCall,         \* a call of mapMatcher.Matches (MapIs, MapContains)
    assertCall,      \* a call of ExpectThat or AssertThat and its test reporter
    regexCall,       \* a call of Regex(r) and ContainsRegex(r) on one value
    flow,            \* one run of matcherFlowGraph.Solve, statement by statement
    conc             \* two invocations on one matcher value, interleaved

vars == <<pc, adapter, op, m, x, r, keyMatches, valMatches, built, matchMatrix,
          noMatchMatchers, noMatchValues, g, matcher, evals, solveCalls,
          result, explanation, last, mapCall, assertCall, regexCall, flow, conc>>

\* The state of a call of the unordered matchers.
engine == <<pc, adapter, op, m, x, r, keyMatches, valMatches, built, matchMatrix,
            noMatchMatchers, noMatchValues, g, matcher, evals, solveCalls,
            result, explanation>>

\* What a call of the unordered matchers leaves alone.
outside == <<last, mapCall, assertCall, regexCall, flow, conc>>

-----------------------------------------------------------------------------
(* Bounds of the model *)

MaxMatchers == 3
MaxValues == 4
MaxCells == 12
MaxKVCells == 4

-----------------------------------------------------------------------------
(* Values and matchers *)

SeqAdapters == {"Contains", "ElementsAreUnordered"}
KVAdapters == {"MapContainsKVs", "MapIsKVs"}
Ops == {"Matches", "ExplainFailure"}
Kinds == {"array", "slice", "map", "struct"}

\* reflect.Value of the inputs drawn: a kind and, for containers, a length.
Values ==
    {[kind |-> k, len |-> l] : k \in {"array", "slice", "map"}, l \in 0..MaxValues}
        \cup {[kind |-> "struct", len |-> 0]}

\* Every constructor asking for a full match.
MatchAllOfAlways(a) == TRUE

\* The second field of the matcher struct built by each constructor.
MatchAllOf(a) == a \in {"ElementsAreUnordered", "MapIsKVs"}

\* fmt's %T of the value.
TypeName(v) ==
    CASE v.kind = "struct" -> "gotest.SomeStruct"
      [] v.kind = "map" -> "map[string]int"
      [] v.kind = "slice" -> "[]string"
      [] OTHER -> "[" \o ToString(v.len) \o "]string"

\* m.elements[i].String(): the description the opaque matcher i gives of itself.
ElementString(a, i) ==
    IF a \in KVAdapters
        THEN "key (k" \o ToString(i) \o ") -> v" \o ToString(i)
        ELSE "e" \o ToString(i)

\* strings.Join
RECURSIVE Join(_, _)
Join(parts, sep) ==
    IF Len(parts) = 0 THEN ""
    ELSE IF Len(parts) = 1 THEN parts[1]
    ELSE parts[1] \o sep \o Join(Tail(parts), sep)

\* The matrices an evaluation of n matchers on w values can produce.
Matrices(n, w) == [0..n-1 -> [0..w-1 -> BOOLEAN]]

-----------------------------------------------------------------------------
(* Shape and size checks of unorderedMatcher *)

\* The switch taking maps for iterable too.
IsIterableOrMap(v) == v.kind \in {"array", "slice", "map"}

\* case reflect.Array, reflect.Slice
IsIterable(v) == v.kind \in {"array", "slice"}

\* The early returns with the mode flag negated.
SizeFailsSwapped(matchAll, n, len) ==
    IF ~matchAll /\ len # n THEN TRUE
    ELSE IF len < n THEN TRUE
    ELSE FALSE

\* The two early returns on the length of the value.
SizeFails(matchAll, n, len) ==
    IF matchAll /\ len # n THEN TRUE
    ELSE IF len < n THEN TRUE
    ELSE FALSE

\* The count message with its two numbers exchanged.
CountExplanationGotFirst(matchAll, n, len) ==
    IF matchAll /\ len # n
        THEN ToString(len) \o " elements expected but got " \o ToString(n)
        ELSE "at least " \o ToString(len) \o " elements expected but got " \o ToString(n)

\* The messages of the two early returns of ExplainFailure.
CountExplanation(matchAll, n, len) ==
    IF matchAll /\ len # n
        THEN ToString(n) \o " elements expected but got " \o ToString(len)
        ELSE "at least " \o ToString(n) \o " elements expected but got " \o ToString(len)

TypeExplanation(v) == "type " \o TypeName(v) \o " isn't iterable"

-----------------------------------------------------------------------------
(* keyValMatcher *)

\* keyValMatcher.Matches on a value of kind pk and length pl, the key matcher
\* giving kOk on its first element and the value matcher vOk on its second.
KeyValMatches(pk, pl, kOk, vOk) ==
    IF pk \in {"array", "slice"}
        THEN IF pl # 2 THEN FALSE ELSE kOk /\ vOk
        ELSE FALSE

-----------------------------------------------------------------------------
(* validateMatchMatrix *)

\* The increasing sequence of the members of the set S of naturals.
RECURSIVE Ascending(_)
Ascending(S) ==
    IF S = {} THEN <<>>
    ELSE LET lo == CHOOSE a \in S : \A b \in S : a <= b
         IN <<lo>> \o Ascending(S \ {lo})

\* validateMatchMatrix never reporting a matcher.
validateValuesOnly(mm, width) ==
    [noMatchMatchers |-> <<>>,
     noMatchValues |->
        Ascending({j \in 0..width-1 : \A i \in DOMAIN mm : ~mm[i][j]})]

validateMatchMatrix(mm, width) ==
    [noMatchMatchers |->
        Ascending({i \in DOMAIN mm : \A j \in 0..width-1 : ~mm[i][j]}),
     noMatchValues |->
        Ascending({j \in 0..width-1 : \A i \in DOMAIN mm : ~mm[i][j]})]

-----------------------------------------------------------------------------
(* matcherFlowGraph *)

NoGraph == [valToMatcher |-> <<>>, matcherToVal |-> <<>>, matchersMatched |-> 0]

newMatcherFlowGraph(mm, width) ==
    [matcherToVal |-> [i \in DOMAIN mm |-> -1],
     valToMatcher |-> IF DOMAIN mm # {} THEN [j \in 0..width-1 |-> -1] ELSE <<>>,
     matchersMatched |-> 0]

\* 'visited' as Solve allocates it for one top-level attempt.
NewVisited(mm) == [j \in 0..Cardinality(DOMAIN mm)-1 |-> FALSE]

\* First pass of tryAssign, alone: the lowest unassigned value matcher mt
\* matches, if any.
FirstFree(mm, st, mt, width) ==
    LET free == {j \in 0..width-1 : mm[mt][j] /\ st.valToMatcher[j] = -1}
    IN IF free = {} THEN -1 ELSE CHOOSE j \in free : \A k \in free : j <= k

\* The assignment recorded on the value's side only.
AssignValueSide(st, mt, j) ==
    [st EXCEPT !.valToMatcher[j] = mt, !.ok = TRUE]

\* The assignment recorded on the matcher's side only.
AssignOneSided(st, mt, j) ==
    [st EXCEPT !.matcherToVal[mt] = j, !.ok = TRUE]

Assign(st, mt, j) ==
    [st EXCEPT !.matcherToVal[mt] = j, !.valToMatcher[j] = mt, !.ok = TRUE]

\* tryAssign without its second pass.
tryAssignNoDisplace(mm, st, mt, width) ==
    IF mt \notin DOMAIN mm THEN [st EXCEPT !.fault = TRUE, !.ok = FALSE]
    ELSE LET j == FirstFree(mm, st, mt, width)
         IN IF j # -1 THEN Assign(st, mt, j) ELSE [st EXCEPT !.ok = FALSE]

\* tryAssign(matcher, visited).  st = [valToMatcher, matcherToVal, visited,
\* ok, fault]: the graph's arrays, the shared 'visited', the return value and
\* whether the call panicked (an index out of range).
RECURSIVE tryAssign(_, _, _, _)
RECURSIVE secondPass(_, _, _, _, _)

\* The second loop giving up after the first holder that cannot be moved.
secondPassNoRetry(mm, st, mt, width, j) ==
    IF j >= width THEN [st EXCEPT !.ok = FALSE]
    ELSE IF ~mm[mt][j] THEN secondPass(mm, st, mt, width, j + 1)
    ELSE IF j \notin DOMAIN st.visited THEN [st EXCEPT !.fault = TRUE, !.ok = FALSE]
    ELSE IF st.visited[j] THEN secondPass(mm, st, mt, width, j + 1)
    ELSE LET sub == tryAssign(mm, [st EXCEPT !.visited[j] = TRUE],
                              st.valToMatcher[j], width)
         IN IF sub.fault THEN sub
            ELSE IF sub.ok THEN Assign(sub, mt, j)
            ELSE [sub EXCEPT !.ok = FALSE]

tryAssign(mm, st, mt, width) ==
    IF mt \notin DOMAIN mm THEN [st EXCEPT !.fault = TRUE, !.ok = FALSE]
    ELSE LET j == FirstFree(mm, st, mt, width)
         IN IF j # -1 THEN Assign(st, mt, j)
            ELSE secondPass(mm, st, mt, width, 0)

\* The second loop of tryAssign, from value j on.
secondPass(mm, st, mt, width, j) ==
    IF j >= width THEN [st EXCEPT !.ok = FALSE]
    ELSE IF ~mm[mt][j] THEN secondPass(mm, st, mt, width, j + 1)
    ELSE IF j \notin DOMAIN st.visited THEN [st EXCEPT !.fault = TRUE, !.ok = FALSE]
    ELSE IF st.visited[j] THEN secondPass(mm, st, mt, width, j + 1)
    ELSE LET sub == tryAssign(mm, [st EXCEPT !.visited[j] = TRUE],
                              st.valToMatcher[j], width)
         IN IF sub.fault THEN sub
            ELSE IF sub.ok THEN Assign(sub, mt, j)
            ELSE secondPass(mm, sub, mt, width, j + 1)

\* One iteration of the loop of Solve: a top-level tryAssign with a fresh
\* 'visited'.
Attempt(mm, gr, mt, width) ==
    tryAssign(mm,
              [valToMatcher |-> gr.valToMatcher, matcherToVal |-> gr.matcherToVal,
               visited |-> NewVisited(mm), ok |-> FALSE, fault |-> FALSE],
              mt, width)

\* The counting loop comparing with 0 instead of -1.
CountMatchedNonZero(matcherToVal) ==
    Cardinality({i \in DOMAIN matcherToVal : matcherToVal[i] # 0})

\* The counting loop that ends Solve.
CountMatched(matcherToVal) ==
    Cardinality({i \in DOMAIN matcherToVal : matcherToVal[i] # -1})

\* Solve as a whole, from matcher mt on: the graph it leaves, or a fault.
RECURSIVE SolveFrom(_, _, _, _)
SolveFrom(mm, gr, mt, width) ==
    IF mt >= Cardinality(DOMAIN mm)
        THEN [g |-> [gr EXCEPT !.matchersMatched = CountMatched(gr.matcherToVal)],
              fault |-> FALSE]
    ELSE LET a == Attempt(mm, gr, mt, width)
         IN IF a.fault THEN [g |-> gr, fault |-> TRUE]
            ELSE SolveFrom(mm,
                           [gr EXCEPT !.valToMatcher = a.valToMatcher,
                                      !.matcherToVal = a.matcherToVal],
                           mt + 1, width)

Solve(mm, gr, width) ==
    IF DOMAIN mm = {} \/ width = 0 THEN [g |-> gr, fault |-> FALSE]
    ELSE SolveFrom(mm, gr, 0, width)

-----------------------------------------------------------------------------
(* Whole-call results, as functions of the value and of the verdicts *)

\* unorderedMatcher.Matches on value v, mm being the verdicts of the n element
\* matchers on the values of v.
UnorderedMatches(matchAll, n, v, mm) ==
    IF ~IsIterable(v) THEN "false"
    ELSE IF SizeFails(matchAll, n, v.len) THEN "false"
    ELSE LET chk == validateMatchMatrix(mm, v.len)
         IN IF Len(chk.noMatchMatchers) > 0 THEN "false"
            ELSE IF matchAll /\ Len(chk.noMatchValues) > 0 THEN "false"
            ELSE LET s == Solve(mm, newMatcherFlowGraph(mm, v.len), v.len)
                 IN IF s.fault THEN "panic"
                    ELSE IF s.g.matchersMatched = n THEN "true" ELSE "false"

\* orderedMatcher.Matches
OrderedMatches(n, v, mm) ==
    IF ~IsIterable(v) THEN "false"
    ELSE IF v.len # n THEN "false"
    ELSE IF \A i \in 0..v.len-1 : mm[i][i] THEN "true" ELSE "false"

\* The text after Solve with the pairs listed by matcher instead of by value.
ClosestExplanationByMatcher(matchAll, n, gr) ==
    LET head ==
            IF matchAll
                THEN "no permutation could pair all matchers and values, closest match is "
                ELSE "no permutation could satisfy all matchers, closest match is "
        ms == Ascending({i \in DOMAIN gr.matcherToVal : gr.matcherToVal[i] # -1})
        matches == [k \in 1..Len(ms) |->
                        "value " \o ToString(gr.matcherToVal[ms[k]]) \o " -> matcher "
                            \o ToString(ms[k])]
    IN head \o ToString(gr.matchersMatched) \o "/" \o ToString(n) \o " with "
            \o Join(matches, "; ")

\* The text ExplainFailure composes after Solve.
ClosestExplanation(matchAll, n, gr) ==
    LET head ==
            IF matchAll
                THEN "no permutation could pair all matchers and values, closest match is "
                ELSE "no permutation could satisfy all matchers, closest match is "
        vals == Ascending({j \in DOMAIN gr.valToMatcher : gr.valToMatcher[j] # -1})
        matches == [k \in 1..Len(vals) |->
                        "value " \o ToString(vals[k]) \o " -> matcher "
                            \o ToString(gr.valToMatcher[vals[k]])]
    IN head \o ToString(gr.matchersMatched) \o "/" \o ToString(n) \o " with "
            \o Join(matches, "; ")

\* The clauses with the values reported in both modes.
NoMatchProblemsBothModes(a, matchAll, chk) ==
    [k \in 1..Len(chk.noMatchMatchers) |->
        "matcher " \o ToString(chk.noMatchMatchers[k]) \o " matches no elements (wanted "
            \o ElementString(a, chk.noMatchMatchers[k]) \o ")"]
    \o [k \in 1..Len(chk.noMatchValues) |->
            "value " \o ToString(chk.noMatchValues[k]) \o " matches no matchers"]

\* The clauses ExplainFailure composes from the result of validateMatchMatrix.
NoMatchProblems(a, matchAll, chk) ==
    [k \in 1..Len(chk.noMatchMatchers) |->
        "matcher " \o ToString(chk.noMatchMatchers[k]) \o " matches no elements (wanted "
            \o ElementString(a, chk.noMatchMatchers[k]) \o ")"]
    \o (IF matchAll
            THEN [k \in 1..Len(chk.noMatchValues) |->
                    "value " \o ToString(chk.noMatchValues[k]) \o " matches no matchers"]
            ELSE <<>>)

\* Every matcher type having an ExplainFailure method.
IsMismatchExplainerAll(a) == TRUE

\* Whether the matcher type has an ExplainFailure method (the type assertion
\* matcher.(MismatchExplainer) of getExplanation).
IsMismatchExplainer(a) == a \in SeqAdapters

-----------------------------------------------------------------------------
(* The state machine: one call at a time *)

NoExplanation == [text |-> "", ok |-> FALSE]

\* No run of Solve is being followed.
NoFlow ==
    [pc |-> "idle", matchMatrix |-> <<>>, width |-> 0,
     valToMatcher |-> <<>>, matcherToVal |-> <<>>, matchersMatched |-> 0,
     matcher |-> 0, visited |-> <<>>, stack |-> <<>>,
     ret |-> [set |-> FALSE], tops |-> <<>>, explored |-> <<>>]

\* No pair of invocations is running.
NoConc == [pc |-> "idle"]

\* No invocation is being repeated.
NoLast ==
    [set |-> FALSE, adapter |-> "none", op |-> "none",
     m |-> [elements |-> 0, matchAll |-> FALSE], x |-> [kind |-> "struct", len |-> 0],
     built |-> FALSE, keyMatches |-> <<>>, valMatches |-> <<>>, matchMatrix |-> <<>>,
     g |-> NoGraph, result |-> "none", explanation |-> NoExplanation, order |-> <<>>]

\* No call of mapMatcher, of an assertion, of a regex matcher is running.
NoMapCall ==
    [pc |-> "idle", matchAll |-> FALSE, matchers |-> {},
     x |-> [kind |-> "struct", keyType |-> "K", keys |-> {}],
     accepts |-> <<>>, todo |-> {}, result |-> "none"]
NoAssertCall ==
    [pc |-> "idle", fn |-> "none",
     matcher |-> [kind |-> "plain", accepts |-> FALSE, explainer |-> FALSE,
                  useE |-> FALSE],
     verdict |-> "none", message |-> "", returned |-> "none",
     before |-> [nonFatals |-> 0, fatals |-> 0],
     t |-> [nonFatals |-> 0, fatals |-> 0]]
NoRegexCall ==
    [pc |-> "idle", r |-> <<>>, x |-> [kind |-> "int", s |-> <<>>],
     exact |-> <<>>, containing |-> <<>>, regex |-> "none", containsRegex |-> "none"]

Init ==
    /\ pc = "idle"
    /\ adapter = "none"
    /\ op = "none"
    /\ m = [elements |-> 0, matchAll |-> FALSE]
    /\ x = [kind |-> "struct", len |-> 0]
    /\ r = [kind |-> "struct", len |-> 0]
    /\ keyMatches = <<>>
    /\ valMatches = <<>>
    /\ built = FALSE
    /\ matchMatrix = <<>>
    /\ noMatchMatchers = <<>>
    /\ noMatchValues = <<>>
    /\ g = NoGraph
    /\ matcher = 0
    /\ evals = 0
    /\ solveCalls = 0
    /\ result = "none"
    /\ explanation = NoExplanation
    /\ last = NoLast
    /\ mapCall = NoMapCall
    /\ assertCall = NoAssertCall
    /\ regexCall = NoRegexCall
    /\ flow = NoFlow
    /\ conc = NoConc

\* A caller invokes Matches or ExplainFailure of Contains(e0..) or
\* ElementsAreUnordered(e0..) on a value.
CallUnordered ==
    /\ pc = "idle"
    /\ \E a \in SeqAdapters, o \in Ops, n \in 0..MaxMatchers, v \in Values :
        /\ n * v.len <= MaxCells
        /\ adapter' = a
        /\ op' = o
        /\ m' = [elements |-> n, matchAll |-> MatchAllOf(a)]
        /\ x' = v
        /\ r' = v
    /\ pc' = "entry"
    /\ UNCHANGED outside
    /\ UNCHANGED <<keyMatches, valMatches, built, matchMatrix, noMatchMatchers,
                   noMatchValues, g, matcher, evals, solveCalls, result, explanation>>

\* mapKvMatcher.Matches up to its call of unorderedMatcher.Matches: the kind
\* check and the flattening of the map into xAsList, a slice of [2]any.
CallMapKv ==
    /\ pc = "idle"
    /\ \E a \in KVAdapters, n \in 0..MaxMatchers, v \in Values :
        /\ n * v.len <= MaxKVCells
        /\ adapter' = a
        /\ m' = [elements |-> n, matchAll |-> MatchAllOf(a)]
        /\ x' = v
        /\ IF v.kind # "map"
              THEN /\ result' = "false"
                   /\ r' = r
                   /\ pc' = "done"
              ELSE /\ result' = result
                   /\ r' = [kind |-> "slice", len |-> v.len]
                   /\ pc' = "entry"
    /\ op' = "Matches"
    /\ UNCHANGED outside
    /\ UNCHANGED <<keyMatches, valMatches, built, matchMatrix, noMatchMatchers,
                   noMatchValues, g, matcher, evals, solveCalls, explanation>>

\* getExplanation on a matcher built by MapContainsKVs or MapIsKVs: the type
\* assertion to MismatchExplainer decides whether ExplainFailure is called.
ExplainMapKv ==
    /\ pc = "idle"
    /\ \E a \in KVAdapters, n \in 0..MaxMatchers, v \in Values :
        /\ n * v.len <= MaxKVCells
        /\ adapter' = a
        /\ m' = [elements |-> n, matchAll |-> MatchAllOf(a)]
        /\ x' = v
        /\ IF IsMismatchExplainer(a)
              THEN /\ r' = v
                   /\ pc' = "entry"
                   /\ explanation' = explanation
              ELSE /\ r' = r
                   /\ pc' = "done"
                   /\ explanation' = NoExplanation
    /\ op' = "ExplainFailure"
    /\ UNCHANGED outside
    /\ UNCHANGED <<keyMatches, valMatches, built, matchMatrix, noMatchMatchers,
                   noMatchValues, g, matcher, evals, solveCalls, result>>

\* The switch on r.Kind() and the two early returns on r.Len().
CheckShape ==
    /\ pc = "entry"
    /\ IF ~IsIterable(r)
          THEN /\ pc' = "done"
               /\ result' = IF op = "Matches" THEN "false" ELSE result
               /\ explanation' = IF op = "ExplainFailure"
                                    THEN [text |-> TypeExplanation(r), ok |-> TRUE]
                                    ELSE explanation
       ELSE IF SizeFails(m.matchAll, m.elements, r.len)
          THEN /\ pc' = "done"
               /\ result' = IF op = "Matches" THEN "false" ELSE result
               /\ explanation' =
                    IF op = "ExplainFailure"
                        THEN [text |-> CountExplanation(m.matchAll, m.elements, r.len),
                              ok |-> TRUE]
                        ELSE explanation
       ELSE /\ pc' = "build"
            /\ UNCHANGED <<result, explanation>>
    /\ UNCHANGED outside
    /\ UNCHANGED <<adapter, op, m, x, r, keyMatches, valMatches, built, matchMatrix,
                   noMatchMatchers, noMatchValues, g, matcher, evals, solveCalls>>

\* The loops filling matchMatrix with the inner loop starting over once: the
\* first matcher is evaluated a second time on every value.
BuildMatrixTwice ==
    /\ pc = "build"
    /\ IF adapter \in KVAdapters
          THEN \E km \in Matrices(m.elements, r.len), vm \in Matrices(m.elements, r.len) :
                /\ keyMatches' = km
                /\ valMatches' = vm
                /\ matchMatrix' =
                      [i \in 0..m.elements-1 |-> [j \in 0..r.len-1 |->
                          KeyValMatches("array", 2, km[i][j], vm[i][j])]]
          ELSE \E mm \in Matrices(m.elements, r.len) :
                /\ matchMatrix' = mm
                /\ UNCHANGED <<keyMatches, valMatches>>
    /\ built' = TRUE
    /\ evals' = evals + m.elements * r.len + r.len
    /\ pc' = "validate"
    /\ UNCHANGED outside
    /\ UNCHANGED <<adapter, op, m, x, r, noMatchMatchers, noMatchValues, g, matcher,
                   solveCalls, result, explanation>>

\* The loops filling matchMatrix: every element matcher is evaluated on every
\* value; its verdicts are the environment's.
BuildMatrix ==
    /\ pc = "build"
    /\ IF adapter \in KVAdapters
          THEN \E km \in Matrices(m.elements, r.len), vm \in Matrices(m.elements, r.len) :
                /\ keyMatches' = km
                /\ valMatches' = vm
                /\ matchMatrix' =
                      [i \in 0..m.elements-1 |-> [j \in 0..r.len-1 |->
                          KeyValMatches("array", 2, km[i][j], vm[i][j])]]
          ELSE \E mm \in Matrices(m.elements, r.len) :
                /\ matchMatrix' = mm
                /\ UNCHANGED <<keyMatches, valMatches>>
    /\ built' = TRUE
    /\ evals' = evals + m.elements * r.len
    /\ pc' = "validate"
    /\ UNCHANGED outside
    /\ UNCHANGED <<adapter, op, m, x, r, noMatchMatchers, noMatchValues, g, matcher,
                   solveCalls, result, explanation>>

\* validateMatchMatrix and the short-circuit on its result; otherwise
\* newMatcherFlowGraph and the entry into Solve.
Validate ==
    /\ pc = "validate"
    /\ LET chk == validateMatchMatrix(matchMatrix, r.len)
           problems == NoMatchProblems(adapter, m.matchAll, chk)
           stop == IF op = "Matches"
                      THEN \/ Len(chk.noMatchMatchers) > 0
                           \/ m.matchAll /\ Len(chk.noMatchValues) > 0
                      ELSE Len(problems) > 0
       IN /\ noMatchMatchers' = chk.noMatchMatchers
          /\ noMatchValues' = chk.noMatchValues
          /\ IF stop
                THEN /\ pc' = "done"
                     /\ result' = IF op = "Matches" THEN "false" ELSE result
                     /\ explanation' = IF op = "ExplainFailure"
                                          THEN [text |-> Join(problems, "; "), ok |-> TRUE]
                                          ELSE explanation
                     /\ UNCHANGED <<g, solveCalls>>
                ELSE /\ pc' = "solve"
                     /\ g' = newMatcherFlowGraph(matchMatrix, r.len)
                     /\ solveCalls' = solveCalls + 1
                     /\ UNCHANGED <<result, explanation>>
    /\ matcher' = 0
    /\ UNCHANGED outside
    /\ UNCHANGED <<adapter, op, m, x, r, keyMatches, valMatches, built, matchMatrix,
                   evals>>

\* Solve: the early return on an empty matrix.
SolveEmpty ==
    /\ pc = "solve"
    /\ (m.elements = 0 \/ r.len = 0)
    /\ pc' = "solved"
    /\ UNCHANGED outside
    /\ UNCHANGED <<adapter, op, m, x, r, keyMatches, valMatches, built, matchMatrix,
                   noMatchMatchers, noMatchValues, g, matcher, evals, solveCalls,
                   result, explanation>>

\* One iteration of Solve that takes the free values in no fixed order, as a
\* walk over a Go map would.
SolveTryAssignAnyFree ==
    /\ pc = "solve"
    /\ m.elements # 0 /\ r.len # 0
    /\ matcher < m.elements
    /\ LET free == {j \in 0..r.len-1 : matchMatrix[matcher][j] /\ g.valToMatcher[j] = -1}
           a == Attempt(matchMatrix, g, matcher, r.len)
       IN IF free # {}
             THEN \E j \in free :
                  /\ pc' = pc
                  /\ g' = [g EXCEPT !.valToMatcher[j] = matcher,
                                    !.matcherToVal[matcher] = j]
                  /\ matcher' = matcher + 1
                  /\ result' = result
          ELSE IF a.fault
             THEN /\ pc' = "done"
                  /\ result' = "panic"
                  /\ UNCHANGED <<g, matcher>>
             ELSE /\ pc' = pc
                  /\ g' = [g EXCEPT !.valToMatcher = a.valToMatcher,
                                    !.matcherToVal = a.matcherToVal]
                  /\ matcher' = matcher + 1
                  /\ result' = result
    /\ UNCHANGED outside
    /\ UNCHANGED <<adapter, op, m, x, r, keyMatches, valMatches, built, matchMatrix,
                   noMatchMatchers, noMatchValues, evals, solveCalls, explanation>>

\* Solve: one iteration of its loop, a top-level tryAssign.  A panic unwinds
\* the call.
SolveTryAssign ==
    /\ pc = "solve"
    /\ m.elements # 0 /\ r.len # 0
    /\ matcher < m.elements
    /\ LET a == Attempt(matchMatrix, g, matcher, r.len)
       IN IF a.fault
             THEN /\ pc' = "done"
                  /\ result' = "panic"
                  /\ UNCHANGED <<g, matcher>>
             ELSE /\ pc' = pc
                  /\ g' = [g EXCEPT !.valToMatcher = a.valToMatcher,
                                    !.matcherToVal = a.matcherToVal]
                  /\ matcher' = matcher + 1
                  /\ result' = result
    /\ UNCHANGED outside
    /\ UNCHANGED <<adapter, op, m, x, r, keyMatches, valMatches, built, matchMatrix,
                   noMatchMatchers, noMatchValues, evals, solveCalls, explanation>>

\* Solve: the count of the matchings that ends it.
SolveCount ==
    /\ pc = "solve"
    /\ m.elements # 0 /\ r.len # 0
    /\ matcher = m.elements
    /\ g' = [g EXCEPT !.matchersMatched = CountMatched(g.matcherToVal)]
    /\ pc' = "solved"
    /\ UNCHANGED outside
    /\ UNCHANGED <<adapter, op, m, x, r, keyMatches, valMatches, built, matchMatrix,
                   noMatchMatchers, noMatchValues, matcher, evals, solveCalls,
                   result, explanation>>

\* What Matches and ExplainFailure return after Solve.
Finish ==
    /\ pc = "solved"
    /\ pc' = "done"
    /\ result' = IF op = "Matches"
                    THEN (IF g.matchersMatched = m.elements THEN "true" ELSE "false")
                    ELSE result
    /\ explanation' = IF op = "ExplainFailure"
                         THEN [text |-> ClosestExplanation(m.matchAll, m.elements, g),
                               ok |-> TRUE]
                         ELSE explanation
    /\ UNCHANGED outside
    /\ UNCHANGED <<adapter, op, m, x, r, keyMatches, valMatches, built, matchMatrix,
                   noMatchMatchers, noMatchValues, g, matcher, evals, solveCalls>>

\* Everything a call allocated is dropped.
Drop ==
    /\ pc' = "idle"
    /\ adapter' = "none"
    /\ op' = "none"
    /\ m' = [elements |-> 0, matchAll |-> FALSE]
    /\ x' = [kind |-> "struct", len |-> 0]
    /\ r' = [kind |-> "struct", len |-> 0]
    /\ keyMatches' = <<>>
    /\ valMatches' = <<>>
    /\ built' = FALSE
    /\ matchMatrix' = <<>>
    /\ noMatchMatchers' = <<>>
    /\ noMatchValues' = <<>>
    /\ g' = NoGraph
    /\ matcher' = 0
    /\ evals' = 0
    /\ solveCalls' = 0
    /\ result' = "none"
    /\ explanation' = NoExplanation

\* The call has returned.
Return ==
    /\ pc = "done"
    /\ Drop
    /\ UNCHANGED outside

Next ==
    \/ CallUnordered
    \/ CallMapKv
    \/ ExplainMapKv
    \/ CheckShape
    \/ BuildMatrix
    \/ Validate
    \/ SolveEmpty
    \/ SolveTryAssign
    \/ SolveCount
    \/ Finish
    \/ Return

Spec == Init /\ [][Next]_vars

-----------------------------------------------------------------------------
(* The same invocation made twice *)

\* The orders in which w elements can be laid out.
Orders(w) ==
    {q \in [0..w-1 -> 0..w-1] : \A a, b \in 0..w-1 : a # b => q[a] # q[b]}

SameOrder(w) == [j \in 0..w-1 |-> j]

\* mm with its columns laid out in the order q.
Reordered(mm, q) ==
    [i \in DOMAIN mm |-> [j \in DOMAIN q |-> mm[i][q[j]]]]

\* The first invocation: any call, with any verdicts of the element matchers.
FirstCall ==
    /\ ~last.set
    /\ \/ CallUnordered
       \/ CallMapKv
       \/ ExplainMapKv

FirstBuildMatrix ==
    /\ ~last.set
    /\ BuildMatrix

\* The first invocation has returned; the caller keeps what it passed and
\* what it got.
FirstReturn ==
    /\ pc = "done"
    /\ ~last.set
    /\ last' = [set |-> TRUE, adapter |-> adapter, op |-> op, m |-> m, x |-> x,
                built |-> built, keyMatches |-> keyMatches, valMatches |-> valMatches,
                matchMatrix |-> matchMatrix, g |-> g, result |-> result,
                explanation |-> explanation, order |-> SameOrder(x.len)]
    /\ Drop
    /\ UNCHANGED <<mapCall, assertCall, regexCall, flow, conc>>

\* The caller repeats the invocation: the same matcher, the same method, the
\* same value.
CallAgain ==
    /\ last.set
    /\ \/ CallUnordered
       \/ CallMapKv
       \/ ExplainMapKv
    /\ adapter' = last.adapter
    /\ op' = last.op
    /\ m' = last.m
    /\ x' = last.x

\* The loops filling matchMatrix in the repeated invocation.  The element
\* matchers are pure, so each gives the verdict it gave before on the same
\* element.  A slice or array is walked by index; the entries of a map come in
\* the order of MapRange, which differs from one walk to the next.
BuildMatrixAgain ==
    /\ pc = "build"
    /\ last.set
    /\ last.built
    /\ \E q \in Orders(r.len) :
        /\ adapter \in SeqAdapters => q = SameOrder(r.len)
        /\ last' = [last EXCEPT !.order = q]
        /\ matchMatrix' = Reordered(last.matchMatrix, q)
        /\ IF adapter \in KVAdapters
              THEN /\ keyMatches' = Reordered(last.keyMatches, q)
                   /\ valMatches' = Reordered(last.valMatches, q)
              ELSE UNCHANGED <<keyMatches, valMatches>>
    /\ built' = TRUE
    /\ evals' = evals + m.elements * r.len
    /\ pc' = "validate"
    /\ UNCHANGED <<adapter, op, m, x, r, noMatchMatchers, noMatchValues, g, matcher,
                   solveCalls, result, explanation, mapCall, assertCall, regexCall, flow, conc>>

\* The repeated invocation has returned.
ReturnAgain ==
    /\ pc = "done"
    /\ last.set
    /\ last' = NoLast
    /\ Drop
    /\ UNCHANGED <<mapCall, assertCall, regexCall, flow, conc>>

NextTwice ==
    \/ FirstCall
    \/ CheckShape
    \/ FirstBuildMatrix
    \/ Validate
    \/ SolveEmpty
    \/ SolveTryAssign
    \/ SolveCount
    \/ Finish
    \/ FirstReturn
    \/ CallAgain
    \/ BuildMatrixAgain
    \/ ReturnAgain

SpecTwice == Init /\ [][NextTwice]_vars

-----------------------------------------------------------------------------
(* MapContainsKVs and MapIsKVs on maps of up to four entries *)

MaxKVWideCells == 8

\* A caller invokes Matches of MapContainsKVs(kv0..) or MapIsKVs(kv0..).
CallMapKvWide ==
    /\ pc = "idle"
    /\ \E a \in KVAdapters, n \in 0..MaxMatchers, v \in Values :
        /\ n * v.len <= MaxKVWideCells
        /\ adapter' = a
        /\ m' = [elements |-> n, matchAll |-> MatchAllOf(a)]
        /\ x' = v
        /\ IF v.kind # "map"
              THEN /\ result' = "false"
                   /\ r' = r
                   /\ pc' = "done"
              ELSE /\ result' = result
                   /\ r' = [kind |-> "slice", len |-> v.len]
                   /\ pc' = "entry"
    /\ op' = "Matches"
    /\ UNCHANGED outside
    /\ UNCHANGED <<keyMatches, valMatches, built, matchMatrix, noMatchMatchers,
                   noMatchValues, g, matcher, evals, solveCalls, explanation>>

NextKV ==
    \/ CallMapKvWide
    \/ CheckShape
    \/ BuildMatrix
    \/ Validate
    \/ SolveEmpty
    \/ SolveTryAssign
    \/ SolveCount
    \/ Finish
    \/ Return

SpecKV == Init /\ [][NextKV]_vars

-----------------------------------------------------------------------------
(* mapMatcher: MapIs and MapContains *)

\* Keys of the matcher's key type K, and keys of another type that is not
\* assignable to K.
Keys == {"k0", "k1", "k2"}
OtherKeys == {"o0", "o1"}

\* The values a map matcher is applied to: maps keyed by K, maps keyed by the
\* other type, and values that are not maps.
MapValues ==
    [kind : {"map"}, keyType : {"K"}, keys : SUBSET Keys]
        \cup [kind : {"map"}, keyType : {"other"}, keys : SUBSET OtherKeys]
        \cup [kind : {"slice", "struct"}, keyType : {"K"}, keys : {{}}]

\* The last line of mapMatcher.Matches with >= for ==.
LenAtLeast(matchAll, xLen, n) == ~matchAll \/ xLen >= n

\* The last line of mapMatcher.Matches with matchAll taken the wrong way round.
LenAgreesInverted(matchAll, xLen, n) == matchAll \/ xLen = n

\* The last line of mapMatcher.Matches.
LenAgrees(matchAll, xLen, n) == ~matchAll \/ xLen = n

\* mapMatcher.Matches as a function of the matcher, the value and the verdicts
\* acc of the matchers on the values found under their keys.  MapIndex panics
\* on a key that is not assignable to the key type of the map.
MapMatches(matchAll, ks, v, acc) ==
    IF v.kind # "map" THEN "false"
    ELSE IF ks # {} /\ v.keyType # "K" THEN "panic"
    ELSE IF \E k \in ks : k \notin v.keys \/ ~acc[k] THEN "false"
    ELSE IF LenAgrees(matchAll, Cardinality(v.keys), Cardinality(ks)) THEN "true"
    ELSE "false"

\* The orders in which the entries of a map, or the pairs handed to
\* MapIsKVs / MapContainsKVs, can be laid out.
Enumerations(S) ==
    {q \in [0..Cardinality(S)-1 -> S] :
        \A i, k \in 0..Cardinality(S)-1 : i # k => q[i] # q[k]}

\* The verdicts of the pair matchers (Eq(k), matcher of k), laid out in the
\* order po, on the entries of v flattened in the order eo: keyValMatcher asks
\* the value matcher only when the key matcher accepts the key, and Eq of a
\* key of type K accepts no key of another type.
KvMatrix(po, eo, v, acc) ==
    [i \in DOMAIN po |->
        [j \in DOMAIN eo |-> v.keyType = "K" /\ po[i] = eo[j] /\ acc[po[i]]]]

\* mapKvMatcher.Matches for these pair matchers: the entries of the map are
\* flattened and handed to unorderedMatcher.Matches.
MapKvMatches(matchAll, po, eo, v, acc) ==
    IF v.kind # "map" THEN "false"
    ELSE UnorderedMatches(matchAll, Cardinality(DOMAIN po),
                          [kind |-> "slice", len |-> Cardinality(DOMAIN eo)],
                          KvMatrix(po, eo, v, acc))

\* MapIs(matchers).Matches(v) or MapContains(matchers).Matches(v) is called;
\* the kind of v is tested.  The matchers are pure: what each says of the value
\* under its key is fixed for the call.
MapCall ==
    /\ mapCall.pc = "idle"
    /\ \E all \in BOOLEAN, ks \in SUBSET Keys, v \in MapValues :
       \E acc \in [ks \cap v.keys -> BOOLEAN] :
        mapCall' = [pc |-> IF v.kind # "map" THEN "done" ELSE "range",
                    matchAll |-> all, matchers |-> ks, x |-> v, accepts |-> acc,
                    todo |-> ks,
                    result |-> IF v.kind # "map" THEN "false" ELSE "none"]
    /\ UNCHANGED <<engine, last, assertCall, regexCall, flow, conc>>

\* One iteration of the range over m.matchers, which visits the keys in no
\* fixed order.
MapRangeStep ==
    /\ mapCall.pc = "range"
    /\ \E k \in mapCall.todo :
        mapCall' =
            IF mapCall.x.keyType # "K"
                THEN [mapCall EXCEPT !.pc = "done", !.result = "panic"]
            ELSE IF k \notin mapCall.x.keys
                THEN [mapCall EXCEPT !.pc = "done", !.result = "false"]
            ELSE IF ~mapCall.accepts[k]
                THEN [mapCall EXCEPT !.pc = "done", !.result = "false"]
            ELSE [mapCall EXCEPT !.todo = @ \ {k}]
    /\ UNCHANGED <<engine, last, assertCall, regexCall, flow, conc>>

\* The range is over: the comparison of the lengths.
MapRangeEnd ==
    /\ mapCall.pc = "range"
    /\ mapCall.todo = {}
    /\ mapCall' =
          [mapCall EXCEPT
              !.pc = "done",
              !.result = IF LenAgrees(mapCall.matchAll, Cardinality(mapCall.x.keys),
                                      Cardinality(mapCall.matchers))
                            THEN "true" ELSE "false"]
    /\ UNCHANGED <<engine, last, assertCall, regexCall, flow, conc>>

MapReturn ==
    /\ mapCall.pc = "done"
    /\ mapCall' = NoMapCall
    /\ UNCHANGED <<engine, last, assertCall, regexCall, flow, conc>>

NextMap ==
    \/ MapCall
    \/ MapRangeStep
    \/ MapRangeEnd
    \/ MapReturn

SpecMap == Init /\ [][NextMap]_vars

-----------------------------------------------------------------------------
(* ExpectThat and AssertThat *)

\* The reports one test reporter receives before it is reset.
MaxReports == 3

Assertions == {"ExpectThat", "AssertThat"}

\* The context string each function passes to getExplanation.
Context(fn) == IF fn = "ExpectThat" THEN "Expectation" ELSE "Assertion"

\* The cells of the matchMatrix of a matcher passed to an assertion.
MaxAssertCells == 6

\* The matchers passed as `expected`, each with the value it is applied to:
\* a matcher such as gomock.Eq, which accepts the value or not, may or may not
\* be a MismatchExplainer and says whether its explanation is to be used; or
\* Contains(e0..) or ElementsAreUnordered(e0..) with n element matchers, a
\* value x and the verdicts of the element matchers on the values of x.
Expected ==
    {e \in [kind : {"plain"}, accepts : BOOLEAN, explainer : BOOLEAN, useE : BOOLEAN] :
        e.useE => e.explainer}
    \cup UNION {[kind : SeqAdapters, n : {n}, x : {v}, matchMatrix : Matrices(n, v.len),
                 explainer : {TRUE}, useE : {TRUE}] :
                    <<n, v>> \in {nv \in (0..MaxMatchers) \X Values :
                                    nv[1] * nv[2].len <= MaxAssertCells}}

\* matcher.Matches(val): true, false, or a panic.
MatchesOf(e) ==
    IF e.kind = "plain"
        THEN IF e.accepts THEN "true" ELSE "false"
        ELSE UnorderedMatches(MatchAllOf(e.kind), e.n, e.x, e.matchMatrix)

\* The reporter method each function calls on failure.
ReportOf(fn) == IF fn = "ExpectThat" THEN "Errorf" ELSE "Fatalf"

\* getExplanation, W standing for matcher.String(), G for formatGot(val,
\* matcher) and E for the text of ExplainFailure.
getExplanation(context, explainer, useE) ==
    IF explainer /\ useE
        THEN context \o " failed:\n  Wanted: W\n  Got: G\n  ...where E"
        ELSE context \o " failed:\n  Wanted: W\n  Got: G"

\* ExpectThat(t, val, expected) or AssertThat(t, val, expected) is called, up
\* to AsMatcher.
AssertCallStart ==
    /\ assertCall.pc = "idle"
    /\ assertCall.t.fatals = 0
    /\ assertCall.t.nonFatals + assertCall.t.fatals < MaxReports
    /\ \E f \in Assertions, e \in Expected :
        assertCall' = [assertCall EXCEPT
                          !.pc = "matches", !.fn = f, !.matcher = e,
                          !.verdict = "none", !.message = "",
                          !.returned = "none", !.before = assertCall.t]
    /\ UNCHANGED <<engine, last, mapCall, regexCall, flow, conc>>

\* ok := matcher.Matches(val) and the return on ok.  A panic of Matches
\* unwinds the call.
AssertMatches ==
    /\ assertCall.pc = "matches"
    /\ LET ok == MatchesOf(assertCall.matcher)
       IN assertCall' =
            CASE ok = "true" ->
                   [assertCall EXCEPT
                       !.pc = "done", !.verdict = ok,
                       !.returned = IF assertCall.fn = "ExpectThat" THEN "true" ELSE "void"]
              [] ok = "false" ->
                   [assertCall EXCEPT !.pc = "explain", !.verdict = ok]
              [] OTHER ->
                   [assertCall EXCEPT !.pc = "done", !.verdict = ok,
                                      !.returned = "panic"]
    /\ UNCHANGED <<engine, last, mapCall, regexCall, flow, conc>>

\* getExplanation(context, matcher, val)
AssertExplain ==
    /\ assertCall.pc = "explain"
    /\ assertCall' =
          [assertCall EXCEPT
              !.pc = "report",
              !.message = getExplanation(Context(assertCall.fn),
                                         assertCall.matcher.explainer,
                                         assertCall.matcher.useE)]
    /\ UNCHANGED <<engine, last, mapCall, regexCall, flow, conc>>

\* t.Errorf and return false, or t.Fatalf.
AssertReport ==
    /\ assertCall.pc = "report"
    /\ assertCall' =
          IF ReportOf(assertCall.fn) = "Errorf"
              THEN [assertCall EXCEPT
                       !.pc = "done",
                       !.t.nonFatals = @ + 1,
                       !.returned = IF assertCall.fn = "ExpectThat" THEN "false" ELSE "void"]
              ELSE [assertCall EXCEPT
                       !.pc = "done",
                       !.t.fatals = @ + 1,
                       !.returned = IF assertCall.fn = "ExpectThat" THEN "false" ELSE "void"]
    /\ UNCHANGED <<engine, last, mapCall, regexCall, flow, conc>>

\* The call is over; the reporter keeps what it received.
AssertReturn ==
    /\ assertCall.pc = "done"
    /\ assertCall' = [NoAssertCall EXCEPT !.t = assertCall.t, !.before = assertCall.t]
    /\ UNCHANGED <<engine, last, mapCall, regexCall, flow, conc>>

\* The test resets its reporter, or another test starts with a new one.
ReporterReset ==
    /\ assertCall.pc = "idle"
    /\ assertCall.t # NoAssertCall.t
    /\ assertCall' = NoAssertCall
    /\ UNCHANGED <<engine, last, mapCall, regexCall, flow, conc>>

NextAssert ==
    \/ AssertCallStart
    \/ AssertMatches
    \/ AssertExplain
    \/ AssertReport
    \/ AssertReturn
    \/ ReporterReset

SpecAssert == Init /\ [][NextAssert]_vars

-----------------------------------------------------------------------------
(* Regex and ContainsRegex *)

MaxPattern == 3
MaxString == 3

\* Patterns: sequences over two literals, the anchors and the alternation bar.
PatternChars == {"a", "b", "^", "$", "|"}
Patterns == UNION {[1..n -> PatternChars] : n \in 0..MaxPattern}

\* The values the matchers are applied to: strings and byte slices over the
\* two literals, and a value that is neither.
Strings == UNION {[1..n -> {"a", "b"}] : n \in 0..MaxString}
RegexValues ==
    [kind : {"string", "bytes"}, s : Strings] \cup [kind : {"int"}, s : {<<>>}]

\* Regex writing the anchors over the ends of the pattern.
AnchorOverwrite(pat) ==
    LET front == IF Len(pat) = 0 THEN <<"^">>
                 ELSE IF pat[1] # "^" THEN <<"^">> \o Tail(pat) ELSE pat
    IN IF front[Len(front)] # "$"
          THEN SubSeq(front, 1, Len(front) - 1) \o <<"$">>
          ELSE front

\* Regex: the pattern it compiles.
Anchor(pat) ==
    LET front == IF Len(pat) = 0 \/ pat[1] # "^" THEN <<"^">> \o pat ELSE pat
    IN IF front[Len(front)] # "$" THEN front \o <<"$">> ELSE front

\* The alternatives of a pattern: what stands between its bars.
Alternatives(re) ==
    LET bars == {0, Len(re) + 1} \cup {i \in 1..Len(re) : re[i] = "|"}
    IN {SubSeq(re, lo + 1, hi - 1) :
            <<lo, hi>> \in {b \in bars \X bars :
                /\ b[1] < b[2]
                /\ \A k \in bars : ~(b[1] < k /\ k < b[2])}}

\* The items of alt from the i-th on match s from offset at on: ^ at the
\* start of the text, $ at its end, a literal on the character it equals.
RECURSIVE MatchItems(_, _, _, _)
MatchItems(alt, i, s, at) ==
    IF i > Len(alt) THEN TRUE
    ELSE IF alt[i] = "^" THEN at = 0 /\ MatchItems(alt, i + 1, s, at)
    ELSE IF alt[i] = "$" THEN at = Len(s) /\ MatchItems(alt, i + 1, s, at)
    ELSE at < Len(s) /\ s[at + 1] = alt[i] /\ MatchItems(alt, i + 1, s, at + 1)

\* regexp.MatchString / Match: some alternative matches somewhere in s.
MatchString(re, s) ==
    \E alt \in Alternatives(re), at \in 0..Len(s) : MatchItems(alt, 1, s, at)

\* regexMatcher.Matches
RegexMatches(re, v) ==
    IF v.kind \in {"string", "bytes"} THEN MatchString(re, v.s) ELSE FALSE

\* Regex(r) and ContainsRegex(r) are built, to be applied to a value x.
RegexBuild ==
    /\ regexCall.pc = "idle"
    /\ \E p \in Patterns, v \in RegexValues :
        regexCall' = [pc |-> "built", r |-> p, x |-> v,
                      exact |-> Anchor(p), containing |-> p,
                      regex |-> "none", containsRegex |-> "none"]
    /\ UNCHANGED <<engine, last, mapCall, assertCall, flow, conc>>

\* Regex(r).Matches(x)
RegexApply ==
    /\ regexCall.pc = "built"
    /\ regexCall.regex = "none"
    /\ regexCall' =
          [regexCall EXCEPT
              !.regex = IF RegexMatches(regexCall.exact, regexCall.x)
                           THEN "true" ELSE "false"]
    /\ UNCHANGED <<engine, last, mapCall, assertCall, flow, conc>>

\* ContainsRegex(r).Matches(x)
ContainsRegexApply ==
    /\ regexCall.pc = "built"
    /\ regexCall.containsRegex = "none"
    /\ regexCall' =
          [regexCall EXCEPT
              !.containsRegex = IF RegexMatches(regexCall.containing, regexCall.x)
                                   THEN "true" ELSE "false"]
    /\ UNCHANGED <<engine, last, mapCall, assertCall, flow, conc>>

\* Both matchers have answered and are dropped.
RegexDrop ==
    /\ regexCall.pc = "built"
    /\ regexCall.regex # "none" /\ regexCall.containsRegex # "none"
    /\ regexCall' = NoRegexCall
    /\ UNCHANGED <<engine, last, mapCall, assertCall, flow, conc>>

NextRegex ==
    \/ RegexBuild
    \/ RegexApply
    \/ ContainsRegexApply
    \/ RegexDrop

SpecRegex == Init /\ [][NextRegex]_vars

-----------------------------------------------------------------------------
(* matcherFlowGraph.Solve and tryAssign, statement by statement *)

besideFlow == <<engine, last, mapCall, assertCall, regexCall, conc>>

\* The frame of a call tryAssign(mt, visited) on entry: in its first loop, at
\* value 0.  entryV and entryM keep the arrays as the call found them, tried
\* the values whose holders the call has asked to move.
Frame(mt, f) ==
    [matcher |-> mt, pass |-> "first", j |-> 0,
     entryV |-> f.valToMatcher, entryM |-> f.matcherToVal, tried |-> <<>>]

\* What a call leaves behind when it returns.
Returning(fr, ok, how) ==
    [set |-> TRUE, ok |-> ok, how |-> how, matcher |-> fr.matcher, j |-> fr.j,
     entryV |-> fr.entryV, entryM |-> fr.entryM, tried |-> fr.tried]

Top(f) == f.stack[Len(f.stack)]

Pop(st) == SubSeq(st, 1, Len(st) - 1)

\* Matches or ExplainFailure has built a matrix that passed the size check
\* and validateMatchMatrix, and made the graph for it.
FlowStart ==
    /\ flow.pc = "idle"
    /\ \E all \in BOOLEAN, n \in 0..MaxMatchers, w \in 0..MaxValues :
        /\ n * w <= MaxCells
        /\ ~SizeFails(all, n, w)
        /\ \E mm \in Matrices(n, w) :
            LET chk == validateMatchMatrix(mm, w)
                gr == newMatcherFlowGraph(mm, w)
            IN /\ Len(chk.noMatchMatchers) = 0
               /\ all => Len(chk.noMatchValues) = 0
               /\ flow' = [NoFlow EXCEPT !.pc = "solve", !.matchMatrix = mm,
                                         !.width = w,
                                         !.valToMatcher = gr.valToMatcher,
                                         !.matcherToVal = gr.matcherToVal]
    /\ UNCHANGED besideFlow

\* Solve: the test for an empty matrix.
FlowEnter ==
    /\ flow.pc = "solve"
    /\ flow' = IF DOMAIN flow.matchMatrix = {} \/ flow.width = 0
                  THEN [flow EXCEPT !.pc = "returned"]
                  ELSE [flow EXCEPT !.pc = "loop", !.matcher = 0]
    /\ UNCHANGED besideFlow

\* Solve: the head of its loop, which makes 'visited' and calls tryAssign;
\* after the loop, the count.
FlowLoop ==
    /\ flow.pc = "loop"
    /\ flow' =
          IF flow.matcher < Cardinality(DOMAIN flow.matchMatrix)
              THEN [flow EXCEPT !.pc = "call",
                                !.visited = NewVisited(flow.matchMatrix),
                                !.stack = <<Frame(flow.matcher, flow)>>,
                                !.ret = [set |-> FALSE],
                                !.tops = Append(@, flow.matcher),
                                !.explored = <<>>]
              ELSE [flow EXCEPT !.pc = "returned",
                                !.ret = [set |-> FALSE],
                                !.matchersMatched = CountMatched(flow.matcherToVal)]
    /\ UNCHANGED besideFlow

\* The first loop of tryAssign walking the values in no fixed order.
FlowFirstPassAnyFree ==
    /\ flow.pc = "call"
    /\ Top(flow).pass = "first"
    /\ LET fr == Top(flow)
           d == Len(flow.stack)
           free == IF fr.matcher \in DOMAIN flow.matchMatrix
                      THEN {j \in 0..flow.width-1 :
                              flow.matchMatrix[fr.matcher][j] /\ flow.valToMatcher[j] = -1}
                      ELSE {}
       IN IF fr.matcher \notin DOMAIN flow.matchMatrix
             THEN flow' = [flow EXCEPT !.pc = "panicked"]
          ELSE IF free = {}
             THEN flow' = [flow EXCEPT !.stack[d].pass = "second", !.stack[d].j = 0]
          ELSE \E j \in free :
                 flow' = [flow EXCEPT !.matcherToVal[fr.matcher] = j,
                                      !.valToMatcher[j] = fr.matcher,
                                      !.stack = Pop(@),
                                      !.ret = Returning([fr EXCEPT !.j = j], TRUE, "free"),
                                      !.pc = "ret"]
    /\ UNCHANGED besideFlow

\* The first loop of tryAssign taking a compatible value without testing that
\* the value is free.
FlowFirstPassNoFreeTest ==
    /\ flow.pc = "call"
    /\ Top(flow).pass = "first"
    /\ LET fr == Top(flow)
           d == Len(flow.stack)
       IN flow' =
            IF fr.matcher \notin DOMAIN flow.matchMatrix
                THEN [flow EXCEPT !.pc = "panicked"]
            ELSE IF fr.j >= flow.width
                THEN [flow EXCEPT !.stack[d].pass = "second", !.stack[d].j = 0]
            ELSE IF flow.matchMatrix[fr.matcher][fr.j]
                THEN [flow EXCEPT !.matcherToVal[fr.matcher] = fr.j,
                                  !.valToMatcher[fr.j] = fr.matcher,
                                  !.stack = Pop(@),
                                  !.ret = Returning(fr, TRUE, "free"),
                                  !.pc = "ret"]
            ELSE [flow EXCEPT !.stack[d].j = fr.j + 1]
    /\ UNCHANGED besideFlow

\* tryAssign: one iteration of its first loop, or the passage to the second.
\* Indexing matchMatrix with a matcher that is not a row panics.
FlowFirstPass ==
    /\ flow.pc = "call"
    /\ Top(flow).pass = "first"
    /\ LET fr == Top(flow)
           d == Len(flow.stack)
       IN flow' =
            IF fr.matcher \notin DOMAIN flow.matchMatrix
                THEN [flow EXCEPT !.pc = "panicked"]
            ELSE IF fr.j >= flow.width
                THEN [flow EXCEPT !.stack[d].pass = "second", !.stack[d].j = 0]
            ELSE IF flow.matchMatrix[fr.matcher][fr.j] /\ flow.valToMatcher[fr.j] = -1
                THEN [flow EXCEPT !.matcherToVal[fr.matcher] = fr.j,
                                  !.valToMatcher[fr.j] = fr.matcher,
                                  !.stack = Pop(@),
                                  !.ret = Returning(fr, TRUE, "free"),
                                  !.pc = "ret"]
            ELSE [flow EXCEPT !.stack[d].j = fr.j + 1]
    /\ UNCHANGED besideFlow

\* The second loop of tryAssign recursing without marking the value visited.
FlowSecondPassNoMark ==
    /\ flow.pc = "call"
    /\ Top(flow).pass = "second"
    /\ LET fr == Top(flow)
           d == Len(flow.stack)
       IN flow' =
            IF fr.j >= flow.width
                THEN [flow EXCEPT !.stack = Pop(@),
                                  !.ret = Returning(fr, FALSE, "none"),
                                  !.pc = "ret"]
            ELSE IF ~flow.matchMatrix[fr.matcher][fr.j]
                THEN [flow EXCEPT !.stack[d].j = fr.j + 1]
            ELSE IF fr.j \notin DOMAIN flow.visited
                THEN [flow EXCEPT !.pc = "panicked"]
            ELSE IF flow.visited[fr.j]
                THEN [flow EXCEPT !.stack[d].j = fr.j + 1]
            ELSE [flow EXCEPT
                     !.explored = Append(@, fr.j),
                     !.stack = Append([@ EXCEPT ![d].pass = "wait",
                                                ![d].tried = Append(@, fr.j)],
                                      Frame(flow.valToMatcher[fr.j], flow))]
    /\ UNCHANGED besideFlow

\* The second loop of tryAssign taking the value from its holder without
\* finding the holder another value.
FlowSecondPassEvict ==
    /\ flow.pc = "call"
    /\ Top(flow).pass = "second"
    /\ LET fr == Top(flow)
           d == Len(flow.stack)
       IN flow' =
            IF fr.j >= flow.width
                THEN [flow EXCEPT !.stack = Pop(@),
                                  !.ret = Returning(fr, FALSE, "none"),
                                  !.pc = "ret"]
            ELSE IF ~flow.matchMatrix[fr.matcher][fr.j]
                THEN [flow EXCEPT !.stack[d].j = fr.j + 1]
            ELSE IF fr.j \notin DOMAIN flow.visited
                THEN [flow EXCEPT !.pc = "panicked"]
            ELSE IF flow.visited[fr.j]
                THEN [flow EXCEPT !.stack[d].j = fr.j + 1]
            ELSE [flow EXCEPT
                     !.visited[fr.j] = TRUE,
                     !.explored = Append(@, fr.j),
                     !.matcherToVal = [@ EXCEPT ![flow.valToMatcher[fr.j]] = -1,
                                                ![fr.matcher] = fr.j],
                     !.valToMatcher[fr.j] = fr.matcher,
                     !.stack = Pop(@),
                     !.ret = Returning([fr EXCEPT !.tried = Append(@, fr.j)],
                                       TRUE, "displaced"),
                     !.pc = "ret"]
    /\ UNCHANGED besideFlow

\* The second loop of tryAssign taking the value before the recursive call
\* has said whether its holder can move.
FlowSecondPassEager ==
    /\ flow.pc = "call"
    /\ Top(flow).pass = "second"
    /\ LET fr == Top(flow)
           d == Len(flow.stack)
       IN flow' =
            IF fr.j >= flow.width
                THEN [flow EXCEPT !.stack = Pop(@),
                                  !.ret = Returning(fr, FALSE, "none"),
                                  !.pc = "ret"]
            ELSE IF ~flow.matchMatrix[fr.matcher][fr.j]
                THEN [flow EXCEPT !.stack[d].j = fr.j + 1]
            ELSE IF fr.j \notin DOMAIN flow.visited
                THEN [flow EXCEPT !.pc = "panicked"]
            ELSE IF flow.visited[fr.j]
                THEN [flow EXCEPT !.stack[d].j = fr.j + 1]
            ELSE [flow EXCEPT
                     !.visited[fr.j] = TRUE,
                     !.matcherToVal[fr.matcher] = fr.j,
                     !.explored = Append(@, fr.j),
                     !.stack = Append([@ EXCEPT ![d].pass = "wait",
                                                ![d].tried = Append(@, fr.j)],
                                      Frame(flow.valToMatcher[fr.j], flow))]
    /\ UNCHANGED besideFlow

\* tryAssign: one iteration of its second loop up to the recursive call, or
\* the return of false after it.  Indexing 'visited' past its end panics.
FlowSecondPass ==
    /\ flow.pc = "call"
    /\ Top(flow).pass = "second"
    /\ LET fr == Top(flow)
           d == Len(flow.stack)
       IN flow' =
            IF fr.j >= flow.width
                THEN [flow EXCEPT !.stack = Pop(@),
                                  !.ret = Returning(fr, FALSE, "none"),
                                  !.pc = "ret"]
            ELSE IF ~flow.matchMatrix[fr.matcher][fr.j]
                THEN [flow EXCEPT !.stack[d].j = fr.j + 1]
            ELSE IF fr.j \notin DOMAIN flow.visited
                THEN [flow EXCEPT !.pc = "panicked"]
            ELSE IF flow.visited[fr.j]
                THEN [flow EXCEPT !.stack[d].j = fr.j + 1]
            ELSE [flow EXCEPT
                     !.visited[fr.j] = TRUE,
                     !.explored = Append(@, fr.j),
                     !.stack = Append([@ EXCEPT ![d].pass = "wait",
                                                ![d].tried = Append(@, fr.j)],
                                      Frame(flow.valToMatcher[fr.j], flow))]
    /\ UNCHANGED besideFlow

\* A call of tryAssign has returned: to Solve, which goes on to the next
\* matcher, or to the second loop of its caller, which on true takes the
\* value and returns true, and on false goes on to the next value.
FlowAfterCall ==
    /\ flow.pc = "ret"
    /\ LET d == Len(flow.stack)
       IN flow' =
            IF d = 0
                THEN [flow EXCEPT !.pc = "loop", !.matcher = @ + 1]
            ELSE LET fr == flow.stack[d]
                 IN IF flow.ret.ok
                       THEN [flow EXCEPT !.valToMatcher[fr.j] = fr.matcher,
                                         !.matcherToVal[fr.matcher] = fr.j,
                                         !.stack = Pop(@),
                                         !.ret = Returning(fr, TRUE, "displaced")]
                       ELSE [flow EXCEPT !.pc = "call",
                                         !.ret = [set |-> FALSE],
                                         !.stack[d].pass = "second",
                                         !.stack[d].j = fr.j + 1]
    /\ UNCHANGED besideFlow

\* Solve has returned or panicked; its graph is dropped.
FlowDrop ==
    /\ flow.pc \in {"returned", "panicked"}
    /\ flow' = NoFlow
    /\ UNCHANGED besideFlow

NextFlow ==
    \/ FlowStart
    \/ FlowEnter
    \/ FlowLoop
    \/ FlowFirstPass
    \/ FlowSecondPass
    \/ FlowAfterCall
    \/ FlowDrop

SpecFlow == Init /\ [][NextFlow]_vars

\* Solve runs in the calling goroutine, which keeps executing statements
\* until Solve returns or panics.
FlowRuns ==
    \/ FlowEnter
    \/ FlowLoop
    \/ FlowFirstPass
    \/ FlowSecondPass
    \/ FlowAfterCall

SpecFlowFair == SpecFlow /\ WF_vars(FlowRuns)

-----------------------------------------------------------------------------
(* Two invocations on one matcher value *)

MaxConcCells == 4

Invocations == {1, 2}

besideConc == <<engine, last, mapCall, assertCall, regexCall, flow>>

NoCall ==
    [pc |-> "idle", op |-> "none", x |-> [kind |-> "struct", len |-> 0],
     verdicts |-> <<>>, mat |-> -1, graph |-> -1, matcher |-> 0, result |-> "none"]

\* Every allocation returning the same cell.
CachedRef(heap) == 0

\* make / &matcherFlowGraph{}: a cell of the heap that is not in use.
FreshRef(heap) ==
    CHOOSE k \in 0..Cardinality(DOMAIN heap) :
        k \notin DOMAIN heap /\ \A l \in 0..k-1 : l \in DOMAIN heap

\* The heap with cell ref holding v.
Store(heap, ref, v) == (ref :> v) @@ heap

\* The heap without the cells a returning call held.
Release(heap, refs) == [k \in DOMAIN heap \ refs |-> heap[k]]

\* unorderedMatcher.ExplainFailure on value v, mm being the verdicts of the n
\* element matchers of adapter a on the values of v.
UnorderedExplain(a, matchAll, n, v, mm) ==
    IF ~IsIterable(v) THEN TypeExplanation(v)
    ELSE IF SizeFails(matchAll, n, v.len) THEN CountExplanation(matchAll, n, v.len)
    ELSE LET problems == NoMatchProblems(a, matchAll, validateMatchMatrix(mm, v.len))
         IN IF Len(problems) > 0 THEN Join(problems, "; ")
            ELSE LET s == Solve(mm, newMatcherFlowGraph(mm, v.len), v.len)
                 IN IF s.fault THEN "panic"
                    ELSE ClosestExplanation(matchAll, n, s.g)

\* Contains(e0..) or ElementsAreUnordered(e0..) builds a matcher value.
ConcMake ==
    /\ conc.pc = "idle"
    /\ \E a \in SeqAdapters, n \in 0..MaxMatchers :
        LET made == [adapter |-> a, elements |-> n, matchAll |-> MatchAllOf(a)]
        IN conc' = [pc |-> "made", matcher |-> made, made |-> made,
                    mats |-> <<>>, graphs |-> <<>>,
                    calls |-> [c \in Invocations |-> NoCall]]
    /\ UNCHANGED besideConc

\* Invocation c of Matches or ExplainFailure starts on a value of its own.
\* The element matchers are pure: their verdicts on the values are fixed.
ConcCall(c) ==
    /\ conc.pc = "made"
    /\ conc.calls[c].pc = "idle"
    /\ \E o \in Ops, v \in Values :
        /\ conc.matcher.elements * v.len <= MaxConcCells
        /\ \E mm \in Matrices(conc.matcher.elements, v.len) :
            conc' = [conc EXCEPT !.calls[c] =
                        [NoCall EXCEPT !.pc = "entry", !.op = o, !.x = v,
                                       !.verdicts = mm]]
    /\ UNCHANGED besideConc

\* The switch on r.Kind() and the two early returns on r.Len().
ConcCheckShape(c) ==
    /\ conc.pc = "made"
    /\ conc.calls[c].pc = "entry"
    /\ LET cl == conc.calls[c]
           mt == conc.matcher
       IN conc' =
            IF ~IsIterable(cl.x)
                THEN [conc EXCEPT !.calls[c].pc = "done",
                                  !.calls[c].result =
                                      IF cl.op = "Matches" THEN "false"
                                      ELSE TypeExplanation(cl.x)]
            ELSE IF SizeFails(mt.matchAll, mt.elements, cl.x.len)
                THEN [conc EXCEPT !.calls[c].pc = "done",
                                  !.calls[c].result =
                                      IF cl.op = "Matches" THEN "false"
                                      ELSE CountExplanation(mt.matchAll, mt.elements,
                                                            cl.x.len)]
            ELSE [conc EXCEPT !.calls[c].pc = "build"]
    /\ UNCHANGED besideConc

\* matchMatrix := make(..) and the loops filling it.
ConcBuild(c) ==
    /\ conc.pc = "made"
    /\ conc.calls[c].pc = "build"
    /\ LET ref == FreshRef(conc.mats)
       IN conc' = [conc EXCEPT !.mats = Store(@, ref, conc.calls[c].verdicts),
                               !.calls[c].mat = ref,
                               !.calls[c].pc = "validate"]
    /\ UNCHANGED besideConc

\* validateMatchMatrix and the short-circuit; otherwise newMatcherFlowGraph.
ConcValidate(c) ==
    /\ conc.pc = "made"
    /\ conc.calls[c].pc = "validate"
    /\ LET cl == conc.calls[c]
           mt == conc.matcher
           mm == conc.mats[cl.mat]
           chk == validateMatchMatrix(mm, cl.x.len)
           problems == NoMatchProblems(mt.adapter, mt.matchAll, chk)
           ref == FreshRef(conc.graphs)
       IN conc' =
            IF cl.op = "Matches"
                  /\ (Len(chk.noMatchMatchers) > 0
                        \/ (mt.matchAll /\ Len(chk.noMatchValues) > 0))
                THEN [conc EXCEPT !.calls[c].pc = "done", !.calls[c].result = "false"]
            ELSE IF cl.op = "ExplainFailure" /\ Len(problems) > 0
                THEN [conc EXCEPT !.calls[c].pc = "done",
                                  !.calls[c].result = Join(problems, "; ")]
            ELSE [conc EXCEPT !.graphs = Store(@, ref, newMatcherFlowGraph(mm, cl.x.len)),
                              !.calls[c].graph = ref,
                              !.calls[c].matcher = 0,
                              !.calls[c].pc = "solve"]
    /\ UNCHANGED besideConc

\* Solve: one iteration of its loop on the graph of invocation c.
ConcTryAssign(c) ==
    /\ conc.pc = "made"
    /\ conc.calls[c].pc = "solve"
    /\ LET cl == conc.calls[c]
           mm == conc.mats[cl.mat]
           gr == conc.graphs[cl.graph]
       IN /\ DOMAIN mm # {} /\ cl.x.len # 0
          /\ cl.matcher < Cardinality(DOMAIN mm)
          /\ LET a == Attempt(mm, gr, cl.matcher, cl.x.len)
             IN conc' =
                  IF a.fault
                      THEN [conc EXCEPT !.calls[c].pc = "done",
                                        !.calls[c].result = "panic"]
                      ELSE [conc EXCEPT
                               !.graphs[cl.graph] =
                                   [gr EXCEPT !.valToMatcher = a.valToMatcher,
                                              !.matcherToVal = a.matcherToVal],
                               !.calls[c].matcher = cl.matcher + 1]
    /\ UNCHANGED besideConc

\* Solve: the count; then what Matches or ExplainFailure returns.
ConcFinish(c) ==
    /\ conc.pc = "made"
    /\ conc.calls[c].pc = "solve"
    /\ LET cl == conc.calls[c]
           mt == conc.matcher
           mm == conc.mats[cl.mat]
           gr == conc.graphs[cl.graph]
           empty == DOMAIN mm = {} \/ cl.x.len = 0
           counted == IF empty THEN gr
                      ELSE [gr EXCEPT !.matchersMatched = CountMatched(gr.matcherToVal)]
       IN /\ empty \/ cl.matcher = Cardinality(DOMAIN mm)
          /\ conc' =
                [conc EXCEPT
                    !.graphs[cl.graph] = counted,
                    !.calls[c].pc = "done",
                    !.calls[c].result =
                        IF cl.op = "Matches"
                            THEN (IF counted.matchersMatched = mt.elements
                                     THEN "true" ELSE "false")
                            ELSE ClosestExplanation(mt.matchAll, mt.elements, counted)]
    /\ UNCHANGED besideConc

\* Invocation c has returned; what it allocated is garbage.
ConcReturn(c) ==
    /\ conc.pc = "made"
    /\ conc.calls[c].pc = "done"
    /\ conc' = [conc EXCEPT !.calls[c] = NoCall,
                            !.mats = Release(@, {conc.calls[c].mat}),
                            !.graphs = Release(@, {conc.calls[c].graph})]
    /\ UNCHANGED besideConc

\* The matcher value is dropped.
ConcDiscard ==
    /\ conc.pc = "made"
    /\ \A c \in Invocations : conc.calls[c].pc = "idle"
    /\ conc' = NoConc
    /\ UNCHANGED besideConc

NextConc ==
    \/ ConcMake
    \/ \E c \in Invocations : ConcCall(c)
    \/ \E c \in Invocations : ConcCheckShape(c)
    \/ \E c \in Invocations : ConcBuild(c)
    \/ \E c \in Invocations : ConcValidate(c)
    \/ \E c \in Invocations : ConcTryAssign(c)
    \/ \E c \in Invocations : ConcFinish(c)
    \/ \E c \in Invocations : ConcReturn(c)
    \/ ConcDiscard

SpecConc == Init /\ [][NextConc]_vars

-----------------------------------------------------------------------------
(* Properties *)

\* The injective maps from the n matchers to the w values.
Injections(n, w) ==
    {f \in [0..n-1 -> 0..w-1] : \A a, b \in 0..n-1 : a # b => f[a] # f[b]}

\* Some injective map pairs every matcher with a value it matches.
HasAssignment(mm, n, w) ==
    \E f \in Injections(n, w) : \A i \in 0..n-1 : mm[i][f[i]]

Returned(o) == pc = "done" /\ op = o

\* C1: ElementsAreUnordered(P...).Matches(E) on a slice or array E returns
\* true if and only if E has as many values as P has matchers and some
\* bijection pairs every matcher with a value it matches.
C1_FullIffBijection ==
    (Returned("Matches") /\ adapter = "ElementsAreUnordered" /\ IsIterable(x)) =>
        /\ x.len = m.elements => built
        /\ result = "true" <=>
              /\ x.len = m.elements
              /\ HasAssignment(matchMatrix, m.elements, x.len)

\* C1 witness: a full match of three matchers that is not the match in order.
C1_Witness ==
    /\ Returned("Matches") /\ adapter = "ElementsAreUnordered"
    /\ result = "true" /\ m.elements = 3
    /\ \E i \in 0..2 : ~matchMatrix[i][i]

\* C2: Contains(P...).Matches(E) on a slice or array E returns true if and
\* only if some injective map pairs every matcher with a distinct value it
\* matches, values left unpaired never causing a failure.
C2_SubsetIffInjection ==
    (Returned("Matches") /\ adapter = "Contains" /\ IsIterable(x)) =>
        /\ x.len >= m.elements => (built \/ result = "panic")
        /\ result = "true" <=>
              /\ x.len >= m.elements
              /\ HasAssignment(matchMatrix, m.elements, x.len)

\* C3: Matches and ExplainFailure of the unordered matchers always return
\* normally: no index used during Solve/tryAssign is out of range.
C3_NeverFaults == result # "panic"

\* C4: whenever ElementsAreUnordered(P...).Matches(x) is true,
\* Contains(P...).Matches(x) is true.
C4_FullImpliesSubset ==
    (Returned("Matches") /\ adapter = "ElementsAreUnordered" /\ result = "true") =>
        UnorderedMatches(MatchAllOf("Contains"), m.elements, x, matchMatrix) = "true"

\* C4 witness: a full match of at least two matchers has returned true.
C4_Witness ==
    /\ Returned("Matches") /\ adapter = "ElementsAreUnordered"
    /\ result = "true" /\ m.elements >= 2

\* C5: whenever ElementsAre(P...).Matches(x) is true, both
\* ElementsAreUnordered(P...).Matches(x) and Contains(P...).Matches(x) are true.
C5_OrderedImpliesUnordered ==
    (Returned("Matches") /\ adapter \in SeqAdapters /\ built
        /\ OrderedMatches(m.elements, x, matchMatrix) = "true") =>
            result = "true"

\* C5 witness: Contains returned true on a value the ordered matcher accepts.
C5_Witness ==
    /\ Returned("Matches") /\ adapter = "Contains" /\ built
    /\ m.elements = 3
    /\ OrderedMatches(m.elements, x, matchMatrix) = "true"
    /\ result = "true"

\* C6: with zero matchers, Contains() and MapContainsKVs() match every
\* collection of their shape, empty or not, and ElementsAreUnordered() and
\* MapIsKVs() match a collection of their shape if and only if it is empty.
C6_EmptyMatcherList ==
    (Returned("Matches") /\ m.elements = 0) =>
        LET shaped == IF adapter \in KVAdapters
                         THEN x.kind = "map"
                         ELSE x.kind \in {"array", "slice"}
        IN IF adapter \in {"Contains", "MapContainsKVs"}
              THEN result = "true" <=> shaped
              ELSE result = "true" <=> (shaped /\ x.len = 0)

\* C6 witness: MapContainsKVs() has matched a map that is not empty.
C6_Witness ==
    /\ Returned("Matches") /\ m.elements = 0
    /\ adapter = "MapContainsKVs" /\ x.len > 0
    /\ result = "true"

\* Some matcher matches no value: a row of the matrix is all false.
SomeRowAllFalse ==
    \E i \in 0..m.elements-1 : \A j \in 0..r.len-1 : ~matchMatrix[i][j]

\* C7: if some matcher matches no value of the collection, Matches returns
\* false in both modes and neither Matches nor ExplainFailure runs Solve.
C7_PreCheckSound ==
    (built /\ pc # "validate" /\ SomeRowAllFalse) =>
        /\ solveCalls = 0
        /\ pc = "done"
        /\ op = "Matches" => result = "false"

\* C7 witness: ExplainFailure returned on a matrix with an all-false row and a
\* row that is not.
C7_Witness ==
    /\ Returned("ExplainFailure") /\ built /\ SomeRowAllFalse
    /\ \E i \in 0..m.elements-1 : \E j \in 0..r.len-1 : matchMatrix[i][j]

\* The size precondition of the mode fails on the reflected value.
SizePreconditionFails ==
    IF m.matchAll THEN r.len # m.elements ELSE r.len < m.elements

\* C8: when the size precondition of the mode fails, Matches returns false
\* with no matcher evaluated, no matrix built and no search run, and
\* ExplainFailure returns "N elements expected but got M" in full mode and
\* "at least N elements expected but got M" in subset mode.
C8_SizeFailFast ==
    (pc = "done" /\ IsIterable(r) /\ SizePreconditionFails
        /\ (adapter \in SeqAdapters \/ (op = "Matches" /\ x.kind = "map"))) =>
        /\ evals = 0 /\ ~built /\ solveCalls = 0
        /\ op = "Matches" => result = "false"
        /\ op = "ExplainFailure" =>
              /\ explanation.ok
              /\ explanation.text =
                    (IF m.matchAll THEN "" ELSE "at least ")
                        \o ToString(m.elements) \o " elements expected but got "
                        \o ToString(r.len)

\* C8 witness: ExplainFailure of Contains returned on a value shorter than
\* the matcher list.
C8_Witness ==
    /\ Returned("ExplainFailure") /\ adapter = "Contains" /\ IsIterable(r)
    /\ r.len = 2 /\ m.elements = 3
    /\ explanation.text = "at least 3 elements expected but got 2"

\* C9: when the value given to Contains or ElementsAreUnordered is neither a
\* slice nor an array, Matches returns false and ExplainFailure returns
\* "type T isn't iterable", no matcher being evaluated and no matrix built.
C9_NotIterable ==
    (pc = "done" /\ adapter \in SeqAdapters /\ x.kind \notin {"array", "slice"}) =>
        /\ evals = 0 /\ ~built /\ solveCalls = 0
        /\ op = "Matches" => result = "false"
        /\ op = "ExplainFailure" =>
              /\ explanation.ok
              /\ explanation.text = "type " \o TypeName(x) \o " isn't iterable"

\* C9 witness: ExplainFailure of ElementsAreUnordered returned on a map.
C9_Witness ==
    /\ Returned("ExplainFailure") /\ adapter = "ElementsAreUnordered"
    /\ x.kind = "map" /\ x.len = 2 /\ m.elements = 2
    /\ explanation.text = "type map[string]int isn't iterable"

RowAllFalse(i) == \A j \in 0..r.len-1 : ~matchMatrix[i][j]
ColAllFalse(j) == \A i \in 0..m.elements-1 : ~matchMatrix[i][j]

\* One clause per unmatchable matcher, from matcher i on, in index order.
RECURSIVE MatcherClauses(_)
MatcherClauses(i) ==
    IF i >= m.elements THEN <<>>
    ELSE (IF RowAllFalse(i)
             THEN <<"matcher " \o ToString(i) \o " matches no elements (wanted "
                        \o ElementString(adapter, i) \o ")">>
             ELSE <<>>) \o MatcherClauses(i + 1)

\* One clause per unmatchable value, from value j on, in index order.
RECURSIVE ValueClauses(_)
ValueClauses(j) ==
    IF j >= r.len THEN <<>>
    ELSE (IF ColAllFalse(j)
             THEN <<"value " \o ToString(j) \o " matches no matchers">>
             ELSE <<>>) \o ValueClauses(j + 1)

\* C11: when the size precondition holds and some matcher matches no value
\* (or, in full mode, some value is matched by no matcher), ExplainFailure
\* returns one clause per unmatchable matcher in increasing index, followed
\* in full mode only by one clause per unmatchable value in increasing index,
\* joined by "; "; in subset mode an unmatchable value is never reported and
\* does not stop the call before Solve.
C11_LocalDiagnostic ==
    (Returned("ExplainFailure") /\ adapter \in SeqAdapters /\ built) =>
        LET local == \/ \E i \in 0..m.elements-1 : RowAllFalse(i)
                     \/ m.matchAll /\ \E j \in 0..r.len-1 : ColAllFalse(j)
        IN IF local
              THEN /\ explanation.ok
                   /\ solveCalls = 0
                   /\ explanation.text =
                        Join(MatcherClauses(0)
                                \o (IF m.matchAll THEN ValueClauses(0) ELSE <<>>), "; ")
              ELSE solveCalls = 1

\* C11 witness: the full-mode diagnostic of one unmatchable matcher and one
\* unmatchable value.
C11_Witness ==
    /\ Returned("ExplainFailure") /\ adapter = "ElementsAreUnordered"
    /\ explanation.text =
          "matcher 2 matches no elements (wanted e2); value 2 matches no matchers"

\* The set S of matchers can be paired with distinct values they match.
Matchable(mm, S, w) ==
    \E f \in [S -> 0..w-1] :
        /\ \A a, b \in S : a # b => f[a] # f[b]
        /\ \A i \in S : mm[i][f[i]]

\* The size of a maximum matching of the n matchers with the w values.
MaxMatchingSize(mm, n, w) ==
    CHOOSE k \in 0..n :
        /\ \E S \in SUBSET (0..n-1) : Cardinality(S) = k /\ Matchable(mm, S, w)
        /\ \A S \in SUBSET (0..n-1) : Matchable(mm, S, w) => Cardinality(S) <= k

\* The pairs of the final assignment, from value j on, in value order.
RECURSIVE PairClauses(_)
PairClauses(j) ==
    IF j >= Cardinality(DOMAIN g.valToMatcher) THEN <<>>
    ELSE (IF g.valToMatcher[j] # -1
             THEN <<"value " \o ToString(j) \o " -> matcher "
                        \o ToString(g.valToMatcher[j])>>
             ELSE <<>>) \o PairClauses(j + 1)

\* Every matcher, and in full mode every value, has a partner of its own, yet
\* Matches returns false on this matrix.
GloballyInfeasible ==
    /\ built
    /\ \A i \in 0..m.elements-1 : ~RowAllFalse(i)
    /\ m.matchAll => \A j \in 0..r.len-1 : ~ColAllFalse(j)
    /\ UnorderedMatches(m.matchAll, m.elements, r, matchMatrix) = "false"

\* C12: when every matcher (and in full mode every value) is individually
\* matchable but Matches returns false, ExplainFailure reports "closest match
\* is K/N" with K < N the size of a maximum matching of the matrix, followed
\* by exactly K pairs "value j -> matcher i" in strictly increasing j, each a
\* compatible pair, no matcher and no value appearing twice.
C12_GlobalDiagnostic ==
    (Returned("ExplainFailure") /\ adapter \in SeqAdapters /\ GloballyInfeasible) =>
        LET K == MaxMatchingSize(matchMatrix, m.elements, r.len)
            paired == {j \in DOMAIN g.valToMatcher : g.valToMatcher[j] # -1}
        IN /\ explanation.ok
           /\ K < m.elements
           /\ g.matchersMatched = K
           /\ Cardinality(paired) = K
           /\ \A j \in paired : /\ g.valToMatcher[j] \in 0..m.elements-1
                                /\ matchMatrix[g.valToMatcher[j]][j]
           /\ \A j, k \in paired : j # k => g.valToMatcher[j] # g.valToMatcher[k]
           /\ Len(PairClauses(0)) = K
           /\ explanation.text =
                (IF m.matchAll
                    THEN "no permutation could pair all matchers and values, "
                    ELSE "no permutation could satisfy all matchers, ")
                \o "closest match is " \o ToString(K) \o "/" \o ToString(m.elements)
                \o " with " \o Join(PairClauses(0), "; ")

\* C12 witness: three matchers and three values, each with a partner, of which
\* only two pairs can be formed.
C12_Witness ==
    /\ Returned("ExplainFailure") /\ adapter = "ElementsAreUnordered"
    /\ GloballyInfeasible
    /\ explanation.text =
          "no permutation could pair all matchers and values, closest match is 2/3 with value 0 -> matcher 0; value 1 -> matcher 2"

C14_PerfectInverses ==
    (Returned("Matches") /\ m.matchAll /\ result = "true" /\ IsIterable(r)) =>
        /\ DOMAIN g.matcherToVal = 0..m.elements-1
        /\ DOMAIN g.valToMatcher = 0..r.len-1
        /\ \A i \in 0..m.elements-1 :
              /\ g.matcherToVal[i] \in 0..r.len-1
              /\ g.valToMatcher[g.matcherToVal[i]] = i
        /\ \A j \in 0..r.len-1 :
              /\ g.valToMatcher[j] \in 0..m.elements-1
              /\ g.matcherToVal[g.valToMatcher[j]] = j

\* ElementsAreUnordered of three matchers has accepted three elements with
\* an assignment that is not the identity.
C14_Witness ==
    /\ Returned("Matches") /\ adapter = "ElementsAreUnordered" /\ result = "true"
    /\ m.elements = 3 /\ r.len = 3
    /\ g.matcherToVal[0] = 2 /\ g.valToMatcher[0] = 1

\* mm with its rows laid out in the order p and its columns in the order q.
Permuted(mm, p, q) ==
    [i \in DOMAIN p |-> [j \in DOMAIN q |-> mm[p[i]][q[j]]]]

\* C15: in both modes Matches returns the same outcome for every order of the
\* matchers and every order of the elements (for a map: every order in which
\* its entries are flattened).
C15_OrderIndependent ==
    (Returned("Matches") /\ built) =>
        \A p \in Orders(m.elements), q \in Orders(r.len) :
            UnorderedMatches(m.matchAll, m.elements, r, Permuted(matchMatrix, p, q))
                = result

\* C16: a pair matcher accepts an entry iff its key matcher accepts the key
\* and its value matcher the value; MapContainsKVs(..).Matches(m) is true iff
\* some injective assignment pairs every pair matcher with an entry of m that
\* it accepts, and MapIsKVs(..).Matches(m) is true iff such an assignment is
\* onto the entries of m.
C16_KeyValueAdapters ==
    (Returned("Matches") /\ adapter \in KVAdapters) =>
        /\ built =>
              \A i \in 0..m.elements-1, j \in 0..r.len-1 :
                  matchMatrix[i][j] <=> (keyMatches[i][j] /\ valMatches[i][j])
        /\ result = "true" <=>
              /\ built
              /\ HasAssignment(matchMatrix, m.elements, r.len)
              /\ m.matchAll => m.elements = r.len

\* Every matcher of the call has a value under its key and accepts it.
AllKeysAccepted ==
    \A k \in mapCall.matchers : k \in mapCall.x.keys /\ mapCall.accepts[k]

\* C17: MapIs(r).Matches(m) is true iff m is a map with the keys of r whose
\* value under each key the matcher of that key accepts; MapContains(r)
\* .Matches(m) is true iff m is a map that has every key of r with a value the
\* matcher of that key accepts, whatever other keys m has.
C17_MapMatcher ==
    mapCall.pc = "done" =>
        (mapCall.result = "true" <=>
            /\ mapCall.x.kind = "map"
            /\ AllKeysAccepted
            /\ mapCall.matchAll => mapCall.x.keys = mapCall.matchers)

\* MapContains of two matchers has accepted a map of three entries, and
\* MapIs of two matchers has rejected a map for its third entry.
C17_Witness ==
    /\ mapCall.pc = "done"
    /\ Cardinality(mapCall.matchers) = 2 /\ Cardinality(mapCall.x.keys) = 3
    /\ AllKeysAccepted
    /\ mapCall.result = IF mapCall.matchAll THEN "false" ELSE "true"

\* C18: whenever MapIs(r).Matches(x) is true, MapContains(r).Matches(x) is true.
C18_MapIsImpliesMapContains ==
    (mapCall.pc = "done" /\ mapCall.matchAll /\ mapCall.result = "true") =>
        MapMatches(FALSE, mapCall.matchers, mapCall.x, mapCall.accepts) = "true"

\* MapIs of two matchers has accepted a map of two entries.
C18_Witness ==
    /\ mapCall.pc = "done" /\ mapCall.matchAll /\ mapCall.result = "true"
    /\ Cardinality(mapCall.matchers) = 2

\* The steps of mapMatcher.Matches end with the value of MapMatches.
MapStepsAgree ==
    mapCall.pc = "done" =>
        mapCall.result =
            MapMatches(mapCall.matchAll, mapCall.matchers, mapCall.x, mapCall.accepts)

\* What the reporter received during the call.
NonFatalsReported == assertCall.t.nonFatals - assertCall.before.nonFatals
FatalsReported == assertCall.t.fatals - assertCall.before.fatals

\* C19: ExpectThat returns true and reports nothing when the matcher accepts
\* the value, and otherwise reports one non-fatal error and no fatal error and
\* returns false.  AssertThat reports nothing when the matcher accepts the
\* value, and otherwise reports one fatal error and no non-fatal error.
C19_FailureRouting ==
    assertCall.pc = "done" =>
        IF assertCall.verdict = "true"
            THEN /\ NonFatalsReported = 0 /\ FatalsReported = 0
                 /\ assertCall.fn = "ExpectThat" => assertCall.returned = "true"
        ELSE IF assertCall.fn = "ExpectThat"
            THEN /\ NonFatalsReported = 1 /\ FatalsReported = 0
                 /\ assertCall.returned = "false"
            ELSE /\ NonFatalsReported = 0 /\ FatalsReported = 1

\* The routing holds of every call whose matcher returns from Matches.
RoutingWhenMatchesReturns ==
    (assertCall.pc = "done" /\ assertCall.verdict # "panic") => C19_FailureRouting

C21_MaximumMatching ==
    pc = "solved" =>
        g.matchersMatched = MaxMatchingSize(matchMatrix, m.elements, r.len)

\* Solve has returned a matching of all three matchers in which matcher 0
\* does not hold the value it took first: its only way to the maximum was a
\* displacement.
C21_Witness ==
    /\ pc = "solved" /\ m.elements = 3 /\ r.len = 3
    /\ g.matchersMatched = 3
    /\ matchMatrix[0][0] /\ g.matcherToVal[0] # 0

\* C22: when Solve starts and after each of its top-level tryAssign calls,
\* failed or not, matcherToVal[i] = j iff valToMatcher[j] = i for every
\* matcher i and value j.
C22_MutuallyConsistent ==
    pc \in {"solve", "solved"} =>
        \A i \in DOMAIN g.matcherToVal, j \in DOMAIN g.valToMatcher :
            g.matcherToVal[i] = j <=> g.valToMatcher[j] = i

\* Solve has made its three top-level calls: the first matcher was moved by
\* the second, and the call for the third failed.
C22_Witness ==
    /\ pc = "solve" /\ m.elements = 3 /\ matcher = 3
    /\ matchMatrix[0][0] /\ g.matcherToVal[0] = 1 /\ g.matcherToVal[1] = 0
    /\ g.matcherToVal[2] = -1

\* The statement-by-statement run of Solve ends as the function Solve does.
FlowAgreesWithSolve ==
    LET whole == Solve(flow.matchMatrix,
                       newMatcherFlowGraph(flow.matchMatrix, flow.width), flow.width)
    IN /\ flow.pc = "panicked" => whole.fault
       /\ flow.pc = "returned" =>
             /\ ~whole.fault
             /\ whole.g.valToMatcher = flow.valToMatcher
             /\ whole.g.matcherToVal = flow.matcherToVal
             /\ whole.g.matchersMatched = flow.matchersMatched

\* The values that were unassigned and compatible with the matcher of the
\* call that has just returned, when that call started.
FreeAtEntry ==
    {j \in 0..flow.width-1 :
        flow.matchMatrix[flow.ret.matcher][j] /\ flow.ret.entryV[j] = -1}

\* C23: Solve calls tryAssign for the matchers in increasing index order, once
\* each.  A call whose matcher has an unassigned compatible value gives it the
\* lowest such value and moves no other matcher.  A call whose matcher has none
\* and that returns true has asked holders to move for compatible values in
\* increasing index order and has taken the last value it asked for.
C23_SearchOrder ==
    /\ \A k \in 1..Len(flow.tops) : flow.tops[k] = k - 1
    /\ flow.pc = "returned" /\ flow.width # 0 =>
          Len(flow.tops) = Cardinality(DOMAIN flow.matchMatrix)
    /\ (flow.pc = "ret" /\ FreeAtEntry # {}) =>
          /\ flow.ret.ok /\ flow.ret.how = "free"
          /\ flow.ret.j \in FreeAtEntry
          /\ \A j \in FreeAtEntry : flow.ret.j <= j
          /\ flow.valToMatcher = [flow.ret.entryV EXCEPT ![flow.ret.j] = flow.ret.matcher]
          /\ flow.matcherToVal = [flow.ret.entryM EXCEPT ![flow.ret.matcher] = flow.ret.j]
    /\ (flow.pc = "ret" /\ FreeAtEntry = {} /\ flow.ret.ok) =>
          /\ flow.ret.how = "displaced"
          /\ Len(flow.ret.tried) > 0
          /\ flow.ret.j = flow.ret.tried[Len(flow.ret.tried)]
          /\ \A k \in 1..Len(flow.ret.tried) :
                /\ flow.matchMatrix[flow.ret.matcher][flow.ret.tried[k]]
                /\ k > 1 => flow.ret.tried[k - 1] < flow.ret.tried[k]
          /\ flow.valToMatcher[flow.ret.j] = flow.ret.matcher

\* The call for matcher 2 has returned true after the holder of the first
\* value it asked for could not move and the holder of the second could.
C23_Witness ==
    /\ flow.pc = "ret" /\ flow.ret.ok /\ flow.ret.how = "displaced"
    /\ flow.ret.matcher = 2 /\ flow.stack = <<>>
    /\ flow.ret.tried = <<0, 1>>

\* C24: in a call that passes the kind and size checks every matcher is
\* evaluated on every value once, N*M evaluations in all, the cell (i, j)
\* holding the verdict; from then on until the call returns the matrix is not
\* written and no matcher is evaluated again.
C24_MatrixBuiltOnce ==
    /\ [](built =>
            /\ evals = m.elements * r.len
            /\ DOMAIN matchMatrix = 0..m.elements-1
            /\ \A i \in 0..m.elements-1 : DOMAIN matchMatrix[i] = 0..r.len-1
            /\ adapter \in KVAdapters =>
                  \A i \in 0..m.elements-1, j \in 0..r.len-1 :
                      matchMatrix[i][j] = (keyMatches[i][j] /\ valMatches[i][j]))
    /\ []((pc \in {"validate", "solve", "solved", "done"} /\ IsIterable(r)
                /\ ~SizeFails(m.matchAll, m.elements, r.len)) => built)
    /\ [][(built /\ pc # "done") =>
             (matchMatrix' = matchMatrix /\ evals' = evals /\ built')]_vars

\* Solve has returned in a call that evaluated three matchers on four values.
C24_Witness ==
    /\ pc = "solved" /\ built /\ evals = 12
    /\ g.matchersMatched = 3 /\ g.matcherToVal[2] = 0

\* C25: Solve, once entered, comes to an end; within one top-level call no
\* value is taken up for displacement twice, and the calls of tryAssign are
\* never nested deeper than there are values.
C25_Terminates ==
    /\ (flow.pc = "solve") ~> (flow.pc \in {"returned", "panicked"})
    /\ [](\A a, b \in 1..Len(flow.explored) :
              a # b => flow.explored[a] # flow.explored[b])
    /\ [](flow.pc \in {"call", "ret"} => Len(flow.stack) <= flow.width)

\* Three calls of tryAssign are nested, over three values, after two values
\* were taken up for displacement.
C25_Witness ==
    /\ flow.pc = "call" /\ Len(flow.stack) = 3 /\ flow.width = 3
    /\ Len(flow.explored) = 2

\* What invocation c returns when nothing else runs.
Alone(c) ==
    LET cl == conc.calls[c]
        mt == conc.made
    IN IF cl.op = "Matches"
          THEN UnorderedMatches(mt.matchAll, mt.elements, cl.x, cl.verdicts)
          ELSE UnorderedExplain(mt.adapter, mt.matchAll, mt.elements, cl.x, cl.verdicts)

\* C26: of two invocations of Matches or ExplainFailure on one matcher value,
\* interleaved in any order, each returns what it returns when run alone; the
\* matcher's elements and mode stay as they were made; and the matrix and the
\* graph of one invocation are not those of the other.
C26_NoSharedState ==
    conc.pc = "made" =>
        /\ conc.matcher = conc.made
        /\ \A c \in Invocations :
              conc.calls[c].pc = "done" => conc.calls[c].result = Alone(c)
        /\ conc.calls[1].mat # -1 => conc.calls[1].mat # conc.calls[2].mat
        /\ conc.calls[1].graph # -1 => conc.calls[1].graph # conc.calls[2].graph

\* Both invocations have been inside Solve at once with one assignment made
\* each, and invocation 1 has returned true while invocation 2 is still there.
C26_Witness ==
    /\ conc.pc = "made" /\ conc.matcher.elements = 2
    /\ conc.calls[1].pc = "done" /\ conc.calls[1].result = "true"
    /\ conc.calls[1].graph = 1
    /\ conc.calls[2].pc = "solve" /\ conc.calls[2].matcher = 1
    /\ conc.calls[2].graph = 0

\* The matchers holding a value in the graph of Solve.
AssignedMatchers(f) == {i \in DOMAIN f.matcherToVal : f.matcherToVal[i] # -1}

\* The values held by a matcher in the graph of Solve.
AssignedValues(f) == {j \in DOMAIN f.valToMatcher : f.valToMatcher[j] # -1}

\* C27: in every state of Solve a matcher is assigned only a value it is
\* compatible with, and between top-level attempts no two matchers are
\* assigned the same value.
C27_OnlyCompatibleAssigned ==
    flow.pc # "idle" =>
        /\ \A i \in AssignedMatchers(flow) :
              flow.matchMatrix[i][flow.matcherToVal[i]]
        /\ flow.pc \in {"loop", "returned"} =>
              \A i, k \in AssignedMatchers(flow) :
                  i # k => flow.matcherToVal[i] # flow.matcherToVal[k]

\* A top-level attempt that displaced a matcher has completed with two
\* matchers assigned.
C27_Witness ==
    /\ flow.pc = "loop" /\ flow.matcher = 2
    /\ Len(flow.explored) > 0
    /\ AssignedMatchers(flow) = {0, 1}
    /\ flow.ret.set /\ flow.ret.ok /\ flow.ret.how = "displaced"

\* C28: a call of tryAssign that returns false leaves matcherToVal and
\* valToMatcher as they were when the call started.
C28_FailedAttemptChangesNothing ==
    (flow.pc = "ret" /\ ~flow.ret.ok) =>
        /\ flow.valToMatcher = flow.ret.entryV
        /\ flow.matcherToVal = flow.ret.entryM

\* A call that tried to displace the holder of a value has returned false
\* while a matcher is assigned.
C28_Witness ==
    /\ flow.pc = "ret" /\ ~flow.ret.ok
    /\ Len(flow.ret.tried) > 0
    /\ AssignedMatchers(flow) # {}

\* The values that matcherToVal gives to some matcher.
HeldValues(f) == {f.matcherToVal[i] : i \in AssignedMatchers(f)}

\* A top-level call of tryAssign has returned to Solve.
AttemptOver == flow.pc \in {"ret", "loop"} /\ flow.stack = <<>> /\ flow.ret.set

\* The graph as it was when the top-level call that has returned started.
AtAttemptStart == [matcherToVal |-> flow.ret.entryM, valToMatcher |-> flow.ret.entryV]

\* C29: during Solve an assigned matcher may be moved to another value but is
\* never left without one; from one top-level attempt to the next the set of
\* assigned matchers only grows, by at most one matcher and one value per
\* attempt; in every state as many values are held in matcherToVal as there
\* are assigned matchers, and between attempts these are the values that
\* valToMatcher marks as assigned.
C29_AssignedStayAssigned ==
    /\ [][flow'.pc # "idle" =>
              AssignedMatchers(flow) \subseteq AssignedMatchers(flow')]_vars
    /\ [](AttemptOver =>
              /\ AssignedMatchers(AtAttemptStart) \subseteq AssignedMatchers(flow)
              /\ Cardinality(AssignedMatchers(flow))
                    <= Cardinality(AssignedMatchers(AtAttemptStart)) + 1
              /\ Cardinality(AssignedValues(flow))
                    <= Cardinality(AssignedValues(AtAttemptStart)) + 1)
    /\ [](flow.pc # "idle" =>
              Cardinality(HeldValues(flow)) = Cardinality(AssignedMatchers(flow)))
    /\ [](flow.pc \in {"solve", "loop", "returned"} =>
              AssignedValues(flow) = HeldValues(flow))

\* A top-level attempt has returned after moving a matcher that was assigned
\* to another value, with one more matcher and one more value assigned.
C29_Witness ==
    /\ AttemptOver /\ flow.pc = "loop"
    /\ \E i \in AssignedMatchers(AtAttemptStart) :
          flow.matcherToVal[i] # flow.ret.entryM[i]
    /\ Cardinality(AssignedMatchers(flow))
          = Cardinality(AssignedMatchers(AtAttemptStart)) + 1
    /\ Cardinality(AssignedValues(flow))
          = Cardinality(AssignedValues(AtAttemptStart)) + 1

\* Inside an attempt, between the return of a recursive call and the two
\* writes of its caller, valToMatcher still names the moved matcher at the
\* value it left.
StaleInsideAttempt ==
    /\ flow.pc = "ret" /\ flow.stack # <<>> /\ flow.ret.ok
    /\ Cardinality(AssignedValues(flow)) = Cardinality(AssignedMatchers(flow)) + 1

\* C30: MapIs(r).Matches(m) returns what MapIsKVs returns on m for the pairs
\* (Eq(k), r[k]) of the keys k of r, and MapContains(r).Matches(m) what
\* MapContainsKVs returns for the same pairs, whatever the order of the pairs
\* and of the entries of m.
C30_DirectLookupAgrees ==
    mapCall.pc = "done" =>
        \A po \in Enumerations(mapCall.matchers), eo \in Enumerations(mapCall.x.keys) :
            MapKvMatches(mapCall.matchAll, po, eo, mapCall.x, mapCall.accepts)
                = mapCall.result

\* The two agree on every value that is not a map whose key type refuses the
\* keys of r.
DirectLookupAgreesOnAssignableKeys ==
    (mapCall.pc = "done" /\ mapCall.x.keyType = "K") =>
        \A po \in Enumerations(mapCall.matchers), eo \in Enumerations(mapCall.x.keys) :
            MapKvMatches(mapCall.matchAll, po, eo, mapCall.x, mapCall.accepts)
                = mapCall.result

\* MapContains of two matchers has accepted a map of three entries by lookup.
DirectLookupAccepts ==
    /\ mapCall.pc = "done" /\ ~mapCall.matchAll /\ mapCall.result = "true"
    /\ Cardinality(mapCall.matchers) = 2 /\ Cardinality(mapCall.x.keys) = 3

=============================================================================
